---- MODULE Spec2Model ----
(***************************************************************************)
(* Model of src/dags/example_astronauts.py: the tasks of the               *)
(* example_astronauts DAG as operations over Python values.                *)
(*                                                                         *)
(* Python values are tagged tuples, so that values of different Python     *)
(* types can be compared: None, str, numbers (exact rationals n/d in       *)
(* lowest terms, d > 0), lists and dicts with string keys.  An astronaut   *)
(* record (a dict of the JSON payload) is a function from its keys to      *)
(* tagged values.  A dict whose key order matters (the results keyed by    *)
(* craft or by name) is a sequence of [key, value] entries in insertion    *)
(* order.                                                                  *)
(***************************************************************************)
EXTENDS Integers, Sequences, FiniteSets, TLC

VARIABLES
  astronaut_list,        \* outcome of get_astronauts (line 1024)
  number_of_people_in_space,  \* the XCom value pushed by get_astronauts (lines 66-68)
  astronaut_list_after,  \* the list handed to enrich_spacecraft_data, as it is after the call
  enriched_astronauts,   \* outcome of enrich_spacecraft_data (line 1025)
  spacecraft_groups,     \* outcome of filter_astronauts_by_craft (line 1029)
  astronaut_distances,   \* outcome of calculate_mission_distance (line 1041)
  vitals,                \* the five simulated vitals of one astronaut (lines 645-649)
  health_evaluation,     \* the evaluation computed from them (lines 651-711)
  team_demographics,     \* the records with their drawn demographics (lines 769-776)
  team_diversity,        \* outcome of analyze_team_diversity (line 1038)
  weather,               \* outcome of get_weather_data (line 1026)
  combined,              \* outcome of combine_data (line 1053)
  weather_summary,       \* outcome of summarize_weather_conditions (line 1044)
  spacecraft_assignments,  \* outcome of map_spacecraft_assignments (line 1032)
  health_evaluations,    \* outcome of evaluate_health_metrics (line 1035)
  displayed_astronauts,  \* outcome of display_enriched_astronaut_data (line 1047)
  displayed_history,     \* outcome of display_spacecraft_history (line 1050)
  correlation,           \* outcome of analyze_correlation (line 1054)
  random_stream,         \* what the generator of the random module yields, fixed by its seed
  random_position        \* how much of it has been drawn (lines 645-649, 772-775)

vars == <<astronaut_list, number_of_people_in_space, astronaut_list_after,
          enriched_astronauts, spacecraft_groups, astronaut_distances, vitals,
          health_evaluation, team_demographics, team_diversity, weather, combined,
          weather_summary, spacecraft_assignments, health_evaluations, displayed_astronauts,
          displayed_history, correlation, random_stream, random_position>>

(***************************************************************************)
(* Bounds of the model.                                                    *)
(***************************************************************************)
MaxAstronauts == 2
MaxCrew == 4
MaxGrouped == 3

(***************************************************************************)
(* Python values.                                                          *)
(***************************************************************************)
None == <<"None">>
Str(s) == <<"str", s>>
Num(n, d) == <<"num", n, d>>
PyInt(n) == Num(n, 1)
List(s) == <<"list", s>>
Dict(f) == <<"dict", f>>

IsNum(v) == v[1] = "num"

\* Truth value of a Python object, as `if x:` tests it.
Truthy(v) ==
  CASE v[1] = "None" -> FALSE
    [] v[1] = "num"  -> v[2] # 0
    [] v[1] = "str"  -> v[2] # ""
    [] v[1] = "list" -> Len(v[2]) > 0
    [] v[1] = "dict" -> DOMAIN v[2] # {}

RECURSIVE Gcd(_, _)
Gcd(a, b) == IF b = 0 THEN a ELSE Gcd(b, a % b)

Abs(n) == IF n < 0 THEN -n ELSE n

\* The number n/d (d # 0) in lowest terms with a positive denominator.
Rat(n, d) ==
  LET g == Gcd(Abs(n), Abs(d))
      s == IF d < 0 THEN -1 ELSE 1
  IN Num((s * n) \div g, (s * d) \div g)

\* a * b and a / b on numbers.
PyMul(a, b) == Rat(a[2] * b[2], a[3] * b[3])
PyDiv(a, b) == Rat(a[2] * b[3], a[3] * b[2])

\* a * b kept as an exact unevaluated product (its numerator exceeds 32 bits).
PyMulWide(a, b) == <<"product", a, b>>

\* d[key] raises KeyError(key) when the key is absent: the exception's only
\* argument is the key.
KeyError(key) == [type |-> "KeyError", args |-> <<Str(key)>>]
NoExc == [type |-> "", args |-> <<>>]

\* Outcome of a task: not run yet, returned a value, or raised.
Pending == [status |-> "pending", value |-> <<>>, exc |-> NoExc]
Returned(v) == [status |-> "returned", value |-> v, exc |-> NoExc]
Raised(e) == [status |-> "raised", value |-> <<>>, exc |-> e]

\* Mutant of DictCopy: no copy, the same object.
DictCopyAlias(heap, ref) == [heap |-> heap, ref |-> ref]

\* dict.copy() and dict.update() on a dict held in a heap of objects: a
\* reference is an index of the heap.  copy() allocates a new object.
DictCopy(heap, ref) == [heap |-> Append(heap, heap[ref]), ref |-> Len(heap) + 1]

DictUpdate(d, u) ==
  [k \in DOMAIN d \cup DOMAIN u |-> IF k \in DOMAIN u THEN u[k] ELSE d[k]]

\* Mutant of ListAppend: list.insert(0, x).
ListPrepend(list, x) == <<x>> \o list

\* list.append(x).
ListAppend(list, x) == Append(list, x)

\* Insertion-ordered dict: `k in d`, d[k], d[k] = v.
OdKeys(d) == [i \in 1..Len(d) |-> d[i].key]
OdHas(d, k) == \E i \in 1..Len(d) : d[i].key = k
OdGet(d, k) == d[CHOOSE i \in 1..Len(d) : d[i].key = k].value
\* Mutant of OdSet: an assignment to a key already there is dropped.
OdSetKeepingFirst(d, k, v) ==
  IF \E i \in 1..Len(d) : d[i].key = k THEN d ELSE Append(d, [key |-> k, value |-> v])

\* Mutant of OdSet: an assignment moves the key to the end.
OdSetMovingToEnd(d, k, v) ==
  Append(SelectSeq(d, LAMBDA e : e.key # k), [key |-> k, value |-> v])

OdSet(d, k, v) ==
  IF OdHas(d, k)
  THEN [i \in 1..Len(d) |-> IF d[i].key = k THEN [key |-> k, value |-> v] ELSE d[i]]
  ELSE Append(d, [key |-> k, value |-> v])

(***************************************************************************)
(* spacecraft_info, lines 89-205.                                          *)
(***************************************************************************)
Catalog_ISS ==
  [
    model |-> Str("International Space Station"),
    type |-> Str("Space Station"),
    agencies |-> List(<<
      Str("NASA"),
      Str("Roscosmos"),
      Str("ESA"),
      Str("JAXA"),
      Str("CSA")>>),
    countries |-> List(<<
      Str("USA"),
      Str("Russia"),
      Str("Europe"),
      Str("Japan"),
      Str("Canada")>>),
    launch_year |-> PyInt(1998),
    crew_capacity |-> PyInt(7),
    orbital_speed_kmh |-> PyInt(27600),
    orbital_speed_mph |-> PyInt(17150),
    orbital_velocity_ms |-> PyInt(7660),
    altitude_km |-> PyInt(408),
    orbital_period_min |-> Num(2317, 25),
    history |-> Dict([
      first_module |-> Str("Zarya (launched Nov 20, 1998)"),
      first_crew |-> Str("Expedition 1 (Nov 2, 2000)"),
      assembly_period |-> Str("1998-2011"),
      continuous_occupation |-> Str("Since November 2, 2000 (20+ years)"),
      total_visitors |-> Str("Over 270 people from 20+ countries"),
      mass_kg |-> PyInt(420000),
      pressurized_volume_m3 |-> PyInt(916),
      solar_array_area_m2 |-> PyInt(2500),
      cost_usd_billion |-> PyInt(150),
      mission_goals |-> List(<<
        Str("Scientific Research: Conduct experiments in microgravity, biology, physics, astronomy, and materials science"),
        Str("Technology Development: Test new technologies for deep space exploration"),
        Str("Human Health: Study long-term effects of space on human body and develop countermeasures"),
        Str("Earth Observation: Monitor climate change, natural disasters, and environmental conditions"),
        Str("International Cooperation: Foster peaceful collaboration between nations in space exploration"),
        Str("Commercial Opportunities: Support commercial space activities and research"),
        Str("Education and Outreach: Inspire future generations through space education programs")>>),
      notable_achievements |-> List(<<
        Str("Longest continuously inhabited space station in history"),
        Str("Largest human-made structure in space"),
        Str("Platform for over 3,000 scientific experiments"),
        Str("International collaboration between 5 space agencies")>>)])]

Catalog_Tiangong ==
  [
    model |-> Str("Tiangong Space Station (CSS)"),
    type |-> Str("Space Station"),
    agencies |-> List(<<
      Str("CNSA")>>),
    countries |-> List(<<
      Str("China")>>),
    launch_year |-> PyInt(2021),
    crew_capacity |-> PyInt(6),
    orbital_speed_kmh |-> PyInt(27840),
    orbital_speed_mph |-> PyInt(17300),
    orbital_velocity_ms |-> PyInt(7733),
    altitude_km |-> PyInt(400),
    orbital_period_min |-> Num(458, 5),
    history |-> Dict([
      first_module |-> Str("Tianhe core module (launched Apr 29, 2021)"),
      first_crew |-> Str("Shenzhou 12 (Jun 17, 2021)"),
      assembly_period |-> Str("2021-2022"),
      continuous_occupation |-> Str("Since June 2022"),
      total_visitors |-> Str("Multiple crews via Shenzhou missions"),
      mass_kg |-> PyInt(66000),
      pressurized_volume_m3 |-> PyInt(110),
      solar_array_area_m2 |-> PyInt(138),
      cost_usd_billion |-> PyInt(11),
      mission_goals |-> List(<<
        Str("Space Science: Conduct research in space life science, biotechnology, and space medicine"),
        Str("Space Technology: Test and validate new technologies for future deep space missions"),
        Str("Space Applications: Develop applications for Earth observation and space resource utilization"),
        Str("Microgravity Experiments: Study material science and fluid physics in zero gravity"),
        Str("National Capability: Demonstrate China's independent human spaceflight capability"),
        Str("Long-Duration Missions: Support 6-month crew rotations for extended research"),
        Str("International Collaboration: Welcome international partners and experiments")>>),
      notable_achievements |-> List(<<
        Str("First modular space station built by China"),
        Str("Third operational space station after ISS"),
        Str("Features advanced life support systems"),
        Str("Open to international cooperation")>>)])]

Catalog_Shenzhou ==
  [
    model |-> Str("Shenzhou Spacecraft"),
    type |-> Str("Crew Vehicle"),
    agencies |-> List(<<
      Str("CNSA")>>),
    countries |-> List(<<
      Str("China")>>),
    launch_year |-> PyInt(1999),
    crew_capacity |-> PyInt(3),
    orbital_speed_kmh |-> PyInt(27840),
    orbital_speed_mph |-> PyInt(17300),
    orbital_velocity_ms |-> PyInt(7733),
    altitude_km |-> PyInt(400),
    orbital_period_min |-> Num(458, 5),
    history |-> Dict([
      first_launch |-> Str("Shenzhou 1 (Nov 20, 1999, uncrewed)"),
      first_crewed |-> Str("Shenzhou 5 (Oct 15, 2003, Yang Liwei)"),
      total_missions |-> Str("17+ missions (as of 2024)"),
      based_on |-> Str("Russian Soyuz design with Chinese modifications"),
      mass_kg |-> PyInt(7840),
      length_m |-> Num(37, 4),
      diameter_m |-> Num(14, 5),
      mission_goals |-> List(<<
        Str("Crew Transportation: Safely transport taikonauts to and from Tiangong space station"),
        Str("Technology Demonstration: Prove Chinese capability for independent human spaceflight"),
        Str("Orbital Operations: Conduct solo orbital missions for testing and training"),
        Str("Rendezvous and Docking: Perfect automated and manual docking procedures"),
        Str("Spacewalk Support: Provide platform for extravehicular activities (EVAs)"),
        Str("Emergency Capability: Serve as emergency escape vehicle when docked to station"),
        Str("National Pride: Demonstrate China's technological advancement in space exploration")>>),
      notable_achievements |-> List(<<
        Str("Made China the 3rd country to independently launch humans to space"),
        Str("Successfully conducted China's first spacewalk (Shenzhou 7, 2008)"),
        Str("Primary crew transport vehicle for Tiangong station"),
        Str("Reliable workhorse with perfect safety record")>>)])]


spacecraft_info ==
  (Str("ISS") :> Catalog_ISS) @@ (Str("Tiangong") :> Catalog_Tiangong)
    @@ (Str("Shenzhou") :> Catalog_Shenzhou)

\* Mutants of Sentinel: numeric fields defaulted to 0; a fixed display model.
SentinelZeros(craft_name) ==
  [ model |-> craft_name,
    type |-> Str("Unknown"),
    agencies |-> List(<<Str("Unknown")>>),
    countries |-> List(<<Str("Unknown")>>),
    launch_year |-> PyInt(0),
    crew_capacity |-> PyInt(0),
    orbital_speed_kmh |-> PyInt(0),
    orbital_speed_mph |-> PyInt(0),
    orbital_velocity_ms |-> PyInt(0),
    altitude_km |-> PyInt(0),
    orbital_period_min |-> PyInt(0),
    history |-> Dict(<<>>) ]

SentinelFixedModel(craft_name) ==
  [ model |-> Str("Unknown"),
    type |-> Str("Unknown"),
    agencies |-> List(<<Str("Unknown")>>),
    countries |-> List(<<Str("Unknown")>>),
    launch_year |-> None,
    crew_capacity |-> None,
    orbital_speed_kmh |-> None,
    orbital_speed_mph |-> None,
    orbital_velocity_ms |-> None,
    altitude_km |-> None,
    orbital_period_min |-> None,
    history |-> Dict(<<>>) ]

\* The default of spacecraft_info.get, lines 215-228.
Sentinel(craft_name) ==
  [ model |-> craft_name,
    type |-> Str("Unknown"),
    agencies |-> List(<<Str("Unknown")>>),
    countries |-> List(<<Str("Unknown")>>),
    launch_year |-> None,
    crew_capacity |-> None,
    orbital_speed_kmh |-> None,
    orbital_speed_mph |-> None,
    orbital_velocity_ms |-> None,
    altitude_km |-> None,
    orbital_period_min |-> None,
    history |-> Dict(<<>>) ]

\* Mutant of CatalogGet: the key is upper-cased and stripped before the lookup.
Normalized(craft_name) ==
  IF craft_name \in {Str("iss"), Str("ISS ")} THEN Str("ISS") ELSE craft_name

CatalogGetNormalized(craft_name) ==
  IF Normalized(craft_name) \in DOMAIN spacecraft_info
  THEN spacecraft_info[Normalized(craft_name)]
  ELSE [ model |-> craft_name,
         type |-> Str("Unknown"),
         agencies |-> List(<<Str("Unknown")>>),
         countries |-> List(<<Str("Unknown")>>),
         launch_year |-> None,
         crew_capacity |-> None,
         orbital_speed_kmh |-> None,
         orbital_speed_mph |-> None,
         orbital_velocity_ms |-> None,
         altitude_km |-> None,
         orbital_period_min |-> None,
         history |-> Dict(<<>>) ]

\* spacecraft_info.get(craft_name, {...}), lines 213-229: exact key match.
CatalogGet(craft_name) ==
  IF craft_name \in DOMAIN spacecraft_info
  THEN spacecraft_info[craft_name]
  ELSE Sentinel(craft_name)

\* Mutant of EnrichmentOf: the orbital period is not copied.
EnrichmentOfWithoutPeriod(spacecraft) ==
  [ spacecraft_model |-> spacecraft.model,
    spacecraft_type |-> spacecraft.type,
    operating_agencies |-> spacecraft.agencies,
    operating_countries |-> spacecraft.countries,
    launch_year |-> spacecraft.launch_year,
    crew_capacity |-> spacecraft.crew_capacity,
    orbital_speed_kmh |-> spacecraft.orbital_speed_kmh,
    orbital_speed_mph |-> spacecraft.orbital_speed_mph,
    orbital_velocity_ms |-> spacecraft.orbital_velocity_ms,
    altitude_km |-> spacecraft.altitude_km,
    orbital_period_min |-> None,
    history |-> spacecraft.history ]

\* The dict handed to enriched.update, lines 232-245.
EnrichmentOf(spacecraft) ==
  [ spacecraft_model |-> spacecraft.model,
    spacecraft_type |-> spacecraft.type,
    operating_agencies |-> spacecraft.agencies,
    operating_countries |-> spacecraft.countries,
    launch_year |-> spacecraft.launch_year,
    crew_capacity |-> spacecraft.crew_capacity,
    orbital_speed_kmh |-> spacecraft.orbital_speed_kmh,
    orbital_speed_mph |-> spacecraft.orbital_speed_mph,
    orbital_velocity_ms |-> spacecraft.orbital_velocity_ms,
    altitude_km |-> spacecraft.altitude_km,
    orbital_period_min |-> spacecraft.orbital_period_min,
    history |-> spacecraft.history ]

\* The loop of enrich_spacecraft_data, lines 207-248, from its i-th pass on.
\* astronauts is the list of references to the input records, enriched_list
\* the list of references built so far.
RECURSIVE EnrichLoop(_, _, _, _)
EnrichLoop(heap, astronauts, i, enriched_list) ==
  IF i > Len(astronauts)
  THEN [heap |-> heap, outcome |-> Returned(enriched_list)]
  ELSE LET astronaut == astronauts[i] IN
       IF "craft" \notin DOMAIN heap[astronaut]
       THEN [heap |-> heap, outcome |-> Raised(KeyError("craft"))]
       ELSE LET craft_name == heap[astronaut]["craft"]
                copied == DictCopy(heap, astronaut)
                enriched == copied.ref
                spacecraft == CatalogGet(craft_name)
                updated == [copied.heap EXCEPT
                              ![enriched] = DictUpdate(@, EnrichmentOf(spacecraft))]
            IN EnrichLoop(updated, astronauts, i + 1, ListAppend(enriched_list, enriched))

\* enrich_spacecraft_data(astronauts), lines 83-253, on a list of records:
\* the records are the objects 1..Len of the heap.  The result holds the
\* outcome (the records behind the returned references) and the input list
\* as it is after the call.
EnrichSpacecraftData(astronauts) ==
  LET refs == [i \in 1..Len(astronauts) |-> i]
      run == EnrichLoop(astronauts, refs, 1, <<>>)
      out == run.outcome
  IN [ input_after |-> [i \in 1..Len(astronauts) |-> run.heap[i]],
       outcome |-> IF out.status = "returned"
                   THEN Returned([i \in 1..Len(out.value) |-> run.heap[out.value[i]]])
                   ELSE out ]

\* The loop of filter_astronauts_by_craft, lines 501-510, from its i-th pass on.
RECURSIVE FilterLoop(_, _, _)
FilterLoop(astronauts, i, groups) ==
  IF i > Len(astronauts)
  THEN Returned(groups)
  ELSE LET astronaut == astronauts[i] IN
       IF "craft" \notin DOMAIN astronaut THEN Raised(KeyError("craft"))
       ELSE IF "name" \notin DOMAIN astronaut THEN Raised(KeyError("name"))
       ELSE LET craft_name == astronaut["craft"]
                astronaut_name == astronaut["name"]
                opened == IF ~OdHas(groups, craft_name)
                          THEN OdSet(groups, craft_name, <<>>)
                          ELSE groups
            IN FilterLoop(astronauts, i + 1,
                 OdSet(opened, craft_name,
                       ListAppend(OdGet(opened, craft_name), astronaut_name)))

\* filter_astronauts_by_craft(astronauts), lines 496-522.
FilterAstronautsByCraft(astronauts) == FilterLoop(astronauts, 1, <<>>)

\* The loop of map_spacecraft_assignments, lines 532-539, from its i-th pass
\* on.
RECURSIVE MapLoop(_, _, _)
MapLoop(astronauts, i, assignments) ==
  IF i > Len(astronauts)
  THEN Returned(assignments)
  ELSE LET astronaut == astronauts[i] IN
       IF "craft" \notin DOMAIN astronaut THEN Raised(KeyError("craft"))
       ELSE IF "name" \notin DOMAIN astronaut THEN Raised(KeyError("name"))
       ELSE LET spacecraft_name == astronaut["craft"]
                astronaut_name == astronaut["name"]
                opened == IF ~OdHas(assignments, spacecraft_name)
                          THEN OdSet(assignments, spacecraft_name, <<>>)
                          ELSE assignments
            IN MapLoop(astronauts, i + 1,
                 OdSet(opened, spacecraft_name,
                       ListAppend(OdGet(opened, spacecraft_name), astronaut_name)))

\* Mutant of map_spacecraft_assignments: it walks the list from its end.
MapSpacecraftAssignmentsNewestFirst(astronauts) ==
  MapLoop([i \in 1..Len(astronauts) |-> astronauts[Len(astronauts) + 1 - i]], 1, <<>>)

\* map_spacecraft_assignments(astronauts), lines 525-544.
MapSpacecraftAssignments(astronauts) == MapLoop(astronauts, 1, <<>>)

\* display_enriched_astronaut_data, lines 301-353, and
\* display_spacecraft_history, lines 356-433: they print and return None;
\* the first subscripts name (line 311) and craft (line 312), the second
\* craft (line 364).
DisplayEnrichedAstronautData(astronauts) ==
  IF \E i \in 1..Len(astronauts) :
       /\ {"name", "craft"} \ DOMAIN astronauts[i] # {}
       /\ \A j \in 1..(i - 1) : {"name", "craft"} \subseteq DOMAIN astronauts[j]
       /\ "name" \notin DOMAIN astronauts[i]
  THEN Raised(KeyError("name"))
  ELSE IF \E i \in 1..Len(astronauts) : "craft" \notin DOMAIN astronauts[i]
  THEN Raised(KeyError("craft"))
  ELSE Returned(None)

DisplaySpacecraftHistory(astronauts) ==
  IF \E i \in 1..Len(astronauts) : "craft" \notin DOMAIN astronauts[i]
  THEN Raised(KeyError("craft"))
  ELSE Returned(None)

(***************************************************************************)
(* calculate_mission_distance, lines 547-616.                              *)
(***************************************************************************)
estimated_mission_days == 180

\* dict.get(key): None when the key is absent.
DictGet(d, key) == IF key \in DOMAIN d THEN d[key] ELSE None

\* orbits_completed, lines 575-578.
OrbitsCompleted(orbital_period_min) ==
  IF Truthy(orbital_period_min)
  THEN PyDiv(PyInt(estimated_mission_days * 24 * 60), orbital_period_min)
  ELSE PyInt(0)

\* The entry astronaut_distances[name] of one astronaut, lines 566-612.
MissionDistance(astronaut) ==
  LET craft == astronaut["craft"]
      orbital_speed_kmh == DictGet(astronaut, "orbital_speed_kmh")
      orbital_period_min == DictGet(astronaut, "orbital_period_min")
  IN IF Truthy(orbital_speed_kmh)
     THEN LET hours_in_mission == estimated_mission_days * 24
              total_distance_km == PyMul(orbital_speed_kmh, PyInt(hours_in_mission))
          IN [ spacecraft |-> craft,
               orbital_speed_kmh |-> orbital_speed_kmh,
               mission_days |-> PyInt(estimated_mission_days),
               total_distance_km |-> total_distance_km,
               total_distance_miles |-> PyMulWide(total_distance_km, Num(621371, 1000000)),
               orbits_completed |-> OrbitsCompleted(orbital_period_min),
               distance_per_day_km |-> PyDiv(total_distance_km, PyInt(estimated_mission_days)) ]
     ELSE [ spacecraft |-> craft,
            orbital_speed_kmh |-> None,
            mission_days |-> PyInt(estimated_mission_days),
            total_distance_km |-> None,
            total_distance_miles |-> None,
            orbits_completed |-> None,
            distance_per_day_km |-> None ]

\* The loop of calculate_mission_distance, lines 563-613, from its i-th pass on.
RECURSIVE DistanceLoop(_, _, _)
DistanceLoop(astronauts, i, distances) ==
  IF i > Len(astronauts)
  THEN Returned(distances)
  ELSE LET astronaut == astronauts[i] IN
       IF "name" \notin DOMAIN astronaut THEN Raised(KeyError("name"))
       ELSE IF "craft" \notin DOMAIN astronaut THEN Raised(KeyError("craft"))
       ELSE DistanceLoop(astronauts, i + 1,
              OdSet(distances, astronaut["name"], MissionDistance(astronaut)))

CalculateMissionDistance(astronauts) == DistanceLoop(astronauts, 1, <<>>)

(***************************************************************************)
(* The scoring of evaluate_health_metrics, lines 651-711.  Vitals are      *)
(* integers; body_temp is in tenths of a degree (round(x, 1) of line 649   *)
(* keeps one decimal), so 38.0 is 380.                                     *)
(***************************************************************************)
\* Mutant of OxygenRisk: the low band starts at 94 instead of 95.
OxygenRiskLowBandShifted(oxygen_saturation) ==
  IF oxygen_saturation < 90
  THEN [score |-> 3, factors |-> <<"Critical oxygen level">>]
  ELSE IF oxygen_saturation < 94
  THEN [score |-> 2, factors |-> <<"Low oxygen saturation">>]
  ELSE [score |-> 0, factors |-> <<>>]

\* Lines 655-661.
OxygenRisk(oxygen_saturation) ==
  IF oxygen_saturation < 90
  THEN [score |-> 3, factors |-> <<"Critical oxygen level">>]
  ELSE IF oxygen_saturation < 95
  THEN [score |-> 2, factors |-> <<"Low oxygen saturation">>]
  ELSE [score |-> 0, factors |-> <<>>]

\* Mutant of HeartRateRisk: the points of the two bands are exchanged.
HeartRateRiskBandsExchanged(heart_rate) ==
  IF heart_rate > 120 \/ heart_rate < 50
  THEN [score |-> 1, factors |-> <<"Critical heart rate">>]
  ELSE IF heart_rate > 100 \/ heart_rate < 60
  THEN [score |-> 3, factors |-> <<"Elevated/Low heart rate">>]
  ELSE [score |-> 0, factors |-> <<>>]

\* Lines 663-669.
HeartRateRisk(heart_rate) ==
  IF heart_rate > 120 \/ heart_rate < 50
  THEN [score |-> 3, factors |-> <<"Critical heart rate">>]
  ELSE IF heart_rate > 100 \/ heart_rate < 60
  THEN [score |-> 1, factors |-> <<"Elevated/Low heart rate">>]
  ELSE [score |-> 0, factors |-> <<>>]

\* Mutant of BloodPressureRisk: the diastolic pressure is not looked at.
BloodPressureRiskSystolicOnly(systolic_bp, diastolic_bp) ==
  IF systolic_bp > 140 \/ systolic_bp < 90
  THEN [score |-> 2, factors |-> <<"Abnormal blood pressure">>]
  ELSE IF systolic_bp > 130
  THEN [score |-> 1, factors |-> <<"Slightly elevated blood pressure">>]
  ELSE [score |-> 0, factors |-> <<>>]

\* Lines 671-677.
BloodPressureRisk(systolic_bp, diastolic_bp) ==
  IF systolic_bp > 140 \/ systolic_bp < 90
  THEN [score |-> 2, factors |-> <<"Abnormal blood pressure">>]
  ELSE IF systolic_bp > 130 \/ diastolic_bp > 85
  THEN [score |-> 1, factors |-> <<"Slightly elevated blood pressure">>]
  ELSE [score |-> 0, factors |-> <<>>]

\* Lines 679-685.
TemperatureRisk(body_temp) ==
  IF body_temp > 380 \/ body_temp < 360
  THEN [score |-> 2, factors |-> <<"Abnormal body temperature">>]
  ELSE IF body_temp > 375 \/ body_temp < 365
  THEN [score |-> 1, factors |-> <<"Slight temperature variation">>]
  ELSE [score |-> 0, factors |-> <<>>]

\* Mutant of HealthStatus: "Monitor" reaches up to a score of 3.
HealthStatusMonitorUpToThree(risk_score) ==
  IF risk_score = 0 THEN "Normal"
  ELSE IF risk_score <= 3 THEN "Monitor"
  ELSE IF risk_score <= 4 THEN "At Risk"
  ELSE "Critical"

\* Lines 687-699.
HealthStatus(risk_score) ==
  IF risk_score = 0 THEN "Normal"
  ELSE IF risk_score <= 2 THEN "Monitor"
  ELSE IF risk_score <= 4 THEN "At Risk"
  ELSE "Critical"

\* Lines 651-711 for one astronaut's vitals v.
EvaluateVitals(v) ==
  LET oxygen == OxygenRisk(v.oxygen_saturation)
      heart == HeartRateRisk(v.heart_rate)
      pressure == BloodPressureRisk(v.systolic_bp, v.diastolic_bp)
      temperature == TemperatureRisk(v.body_temp)
      risk_score == oxygen.score + heart.score + pressure.score + temperature.score
  IN [ oxygen_saturation |-> v.oxygen_saturation,
       heart_rate |-> v.heart_rate,
       systolic_bp |-> v.systolic_bp,
       diastolic_bp |-> v.diastolic_bp,
       body_temp |-> v.body_temp,
       risk_score |-> risk_score,
       health_status |-> HealthStatus(risk_score),
       risk_factors |-> oxygen.factors \o heart.factors \o pressure.factors
                          \o temperature.factors ]

\* The loop of evaluate_health_metrics, lines 639-711, from its i-th pass on;
\* drawn[i] are the vitals drawn in the i-th pass.
RECURSIVE HealthLoop(_, _, _, _)
HealthLoop(astronauts, drawn, i, evaluations) ==
  IF i > Len(astronauts)
  THEN Returned(evaluations)
  ELSE LET astronaut == astronauts[i] IN
       IF "name" \notin DOMAIN astronaut THEN Raised(KeyError("name"))
       ELSE IF "craft" \notin DOMAIN astronaut THEN Raised(KeyError("craft"))
       ELSE HealthLoop(astronauts, drawn, i + 1,
              OdSet(evaluations, astronaut["name"],
                    [spacecraft |-> astronaut["craft"]] @@ EvaluateVitals(drawn[i])))

\* evaluate_health_metrics(astronauts), lines 619-738, with the vitals drawn.
EvaluateHealthMetrics(astronauts, drawn) == HealthLoop(astronauts, drawn, 1, <<>>)

(***************************************************************************)
(* analyze_team_diversity, lines 741-920.  Scores are exact rationals      *)
(* where the code has floats.                                              *)
(***************************************************************************)
\* a + b, a - b and a >= b on numbers.
PyAdd(a, b) == Rat(a[2] * b[3] + b[2] * a[3], a[3] * b[3])
PySub(a, b) == Rat(a[2] * b[3] - b[2] * a[3], a[3] * b[3])
PyGe(a, b) == a[2] * b[3] >= b[2] * a[3]

RECURSIVE Pow10(_)
Pow10(k) == IF k = 0 THEN 1 ELSE 10 * Pow10(k - 1)

\* round(x, ndigits): the nearest multiple of 10^-ndigits, a tie going to
\* the even one.
PyRound(x, ndigits) ==
  LET scaled == x[2] * Pow10(ndigits)
      q == scaled \div x[3]
      r == scaled % x[3]
      up == 2 * r > x[3] \/ (2 * r = x[3] /\ q % 2 = 1)
  IN Rat(IF up THEN q + 1 ELSE q, Pow10(ndigits))

\* Lines 753-766.
genders == <<Str("Male"), Str("Female"), Str("Non-binary")>>
nationalities ==
  <<Str("USA"), Str("Russia"), Str("China"), Str("Japan"), Str("Canada"),
    Str("Germany"), Str("France"), Str("Italy"), Str("UK"), Str("India")>>
experience_levels ==
  <<Str("Rookie"), Str("Intermediate"), Str("Veteran"), Str("Commander")>>

\* Lines 771-775: the copy of an astronaut with the four drawn values.
WithDemographics(astronaut, drawn) ==
  DictUpdate(astronaut,
    [ gender |-> drawn.gender,
      nationality |-> drawn.nationality,
      experience_level |-> drawn.experience_level,
      missions_completed |-> drawn.missions_completed ])

\* The counting loops of lines 797-800, 809-814 and 821-824, from the i-th
\* member on: counts[value] = counts.get(value, 0) + 1.
RECURSIVE CountLoop(_, _, _, _)
CountLoop(crew, i, field, counts) ==
  IF i > Len(crew)
  THEN counts
  ELSE LET value == crew[i][field]
           seen == IF OdHas(counts, value) THEN OdGet(counts, value) ELSE PyInt(0)
       IN CountLoop(crew, i + 1, field, OdSet(counts, value, PyAdd(seen, PyInt(1))))

\* sum((count / crew_size) ** 2 for count in counts.values()), from the
\* i-th count on.
RECURSIVE SumOfSquaredShares(_, _, _, _)
SumOfSquaredShares(counts, i, crew_size, total) ==
  IF i > Len(counts)
  THEN total
  ELSE LET share == PyDiv(counts[i].value, crew_size)
       IN SumOfSquaredShares(counts, i + 1, crew_size, PyAdd(total, PyMul(share, share)))

\* Mutant of SimpsonIndex: the sum itself, not its complement.
SimpsonIndexConcentration(counts, crew_size) ==
  SumOfSquaredShares(counts, 1, crew_size, PyInt(0))

\* Lines 804-806, 816-818, 826-828.
SimpsonIndex(counts, crew_size) ==
  PySub(PyInt(1), SumOfSquaredShares(counts, 1, crew_size, PyInt(0)))

\* Mutant of DiversityRating: the thresholds are exclusive.
DiversityRatingExclusive(overall_diversity) ==
  IF ~PyGe(Num(7, 10), overall_diversity) THEN "Highly Diverse"
  ELSE IF ~PyGe(Num(1, 2), overall_diversity) THEN "Moderately Diverse"
  ELSE IF ~PyGe(Num(3, 10), overall_diversity) THEN "Low Diversity"
  ELSE "Homogeneous"

\* Lines 842-849.
DiversityRating(overall_diversity) ==
  IF PyGe(overall_diversity, Num(7, 10)) THEN "Highly Diverse"
  ELSE IF PyGe(overall_diversity, Num(1, 2)) THEN "Moderately Diverse"
  ELSE IF PyGe(overall_diversity, Num(3, 10)) THEN "Low Diversity"
  ELSE "Homogeneous"

\* sum(m["missions_completed"] for m in crew), line 836, from the i-th
\* member on.
RECURSIVE SumOfMissions(_, _, _)
SumOfMissions(crew, i, total) ==
  IF i > Len(crew)
  THEN total
  ELSE SumOfMissions(crew, i + 1, PyAdd(total, crew[i]["missions_completed"]))

\* One pass of the loop of lines 793-875: the entry diversity_analysis[craft]
\* of a crew, a non-empty list of records with demographics and a name.
CrewDiversity(crew) ==
  LET crew_size == PyInt(Len(crew))
      gender_counts == CountLoop(crew, 1, "gender", <<>>)
      gender_diversity == SimpsonIndex(gender_counts, crew_size)
      nationality_counts == CountLoop(crew, 1, "nationality", <<>>)
      nationality_diversity == SimpsonIndex(nationality_counts, crew_size)
      experience_counts == CountLoop(crew, 1, "experience_level", <<>>)
      experience_diversity == SimpsonIndex(experience_counts, crew_size)
      overall_diversity ==
        PyDiv(PyAdd(PyAdd(gender_diversity, nationality_diversity),
                    experience_diversity),
              PyInt(3))
      avg_missions == PyDiv(SumOfMissions(crew, 1, PyInt(0)), crew_size)
  IN [ crew_size |-> crew_size,
       gender_diversity_score |-> PyRound(gender_diversity, 3),
       nationality_diversity_score |-> PyRound(nationality_diversity, 3),
       experience_diversity_score |-> PyRound(experience_diversity, 3),
       overall_diversity_score |-> PyRound(overall_diversity, 3),
       diversity_rating |-> DiversityRating(overall_diversity),
       gender_distribution |-> gender_counts,
       nationality_distribution |-> nationality_counts,
       experience_distribution |-> experience_counts,
       unique_nationalities |-> PyInt(Len(nationality_counts)),
       unique_genders |-> PyInt(Len(gender_counts)),
       unique_experience_levels |-> PyInt(Len(experience_counts)),
       average_missions_completed |-> PyRound(avg_missions, 1),
       crew_members |->
         [i \in 1..Len(crew) |->
            [ name |-> crew[i]["name"],
              gender |-> crew[i]["gender"],
              nationality |-> crew[i]["nationality"],
              experience |-> crew[i]["experience_level"],
              missions |-> crew[i]["missions_completed"] ]] ]

\* The grouping loop of lines 779-784, from the i-th record on.
RECURSIVE CrewsLoop(_, _, _)
CrewsLoop(enriched_data, i, spacecraft_crews) ==
  IF i > Len(enriched_data)
  THEN Returned(spacecraft_crews)
  ELSE LET astronaut == enriched_data[i] IN
       IF "craft" \notin DOMAIN astronaut THEN Raised(KeyError("craft"))
       ELSE LET craft == astronaut["craft"]
                opened == IF ~OdHas(spacecraft_crews, craft)
                          THEN OdSet(spacecraft_crews, craft, <<>>)
                          ELSE spacecraft_crews
            IN CrewsLoop(enriched_data, i + 1,
                 OdSet(opened, craft, ListAppend(OdGet(opened, craft), astronaut)))

\* The loop of lines 793-875 over spacecraft_crews.items(), from the i-th
\* crew on.
RECURSIVE DiversityLoop(_, _, _)
DiversityLoop(spacecraft_crews, i, diversity_analysis) ==
  IF i > Len(spacecraft_crews)
  THEN Returned(diversity_analysis)
  ELSE LET craft == spacecraft_crews[i].key
           crew == spacecraft_crews[i].value
       IN IF \E m \in 1..Len(crew) : "name" \notin DOMAIN crew[m]
          THEN Raised(KeyError("name"))
          ELSE DiversityLoop(spacecraft_crews, i + 1,
                 OdSet(diversity_analysis, craft, CrewDiversity(crew)))

\* Mutant of AnalyzeTeamDiversity: no average is taken over no crew.
AnalyzeTeamDiversityOfAnyList(enriched_data) ==
  LET crews == CrewsLoop(enriched_data, 1, <<>>) IN
    IF crews.status = "raised" THEN crews
    ELSE DiversityLoop(crews.value, 1, <<>>)

\* analyze_team_diversity from line 778 on, on the records with their drawn
\* demographics: the crews, their entries, and the average of lines 909-911,
\* whose divisor is the number of crews.
AnalyzeTeamDiversity(enriched_data) ==
  LET crews == CrewsLoop(enriched_data, 1, <<>>) IN
    IF crews.status = "raised" THEN crews
    ELSE LET analysis == DiversityLoop(crews.value, 1, <<>>) IN
         IF analysis.status = "raised" THEN analysis
         ELSE IF Len(analysis.value) = 0
         THEN Raised([type |-> "ZeroDivisionError", args |-> <<Str("division by zero")>>])
         ELSE analysis

(***************************************************************************)
(* combine_data, lines 436-493.                                            *)
(***************************************************************************)
\* dict.get(key, default).
DictGetOr(d, key, default) == IF key \in DOMAIN d THEN d[key] ELSE default

\* The loop of lines 446-460, from the i-th record on: one entry per craft,
\* made from the first record on it, with the number of its records.
RECURSIVE SpacecraftsLoop(_, _, _)
SpacecraftsLoop(astronauts, i, spacecrafts) ==
  IF i > Len(astronauts)
  THEN Returned(spacecrafts)
  ELSE LET person == astronauts[i] IN
       IF "craft" \notin DOMAIN person THEN Raised(KeyError("craft"))
       ELSE LET craft == person["craft"]
                opened ==
                  IF ~OdHas(spacecrafts, craft)
                  THEN OdSet(spacecrafts, craft,
                         [ model |-> DictGetOr(person, "spacecraft_model", craft),
                           count |-> PyInt(0),
                           agencies |-> DictGetOr(person, "operating_agencies", List(<<>>)),
                           countries |-> DictGetOr(person, "operating_countries", List(<<>>)),
                           orbital_speed_kmh |-> DictGet(person, "orbital_speed_kmh"),
                           orbital_velocity_ms |-> DictGet(person, "orbital_velocity_ms"),
                           altitude_km |-> DictGet(person, "altitude_km"),
                           orbital_period_min |-> DictGet(person, "orbital_period_min") ])
                  ELSE spacecrafts
                info == OdGet(opened, craft)
            IN SpacecraftsLoop(astronauts, i + 1,
                 OdSet(opened, craft,
                       [info EXCEPT !.count = Num(info.count[2] + 1, 1)]))

\* Mutant of CombinedData: num_spacecraft counts the records.
CombinedDataCraftPerRecord(number_of_astronauts, spacecrafts, observed) ==
  [ timestamp |-> <<observed["timestamp"]>>,
    num_astronauts |-> <<PyInt(number_of_astronauts)>>,
    num_spacecraft |-> <<PyInt(number_of_astronauts)>>,
    temperature |-> <<observed["temperature"]>>,
    wind_speed |-> <<observed["wind_speed"]>>,
    cloud_cover |-> <<observed["cloud_cover"]>> ]

\* The dict data of lines 481-488: each column is a list of one value.
CombinedData(number_of_astronauts, spacecrafts, observed) ==
  [ timestamp |-> <<observed["timestamp"]>>,
    num_astronauts |-> <<PyInt(number_of_astronauts)>>,
    num_spacecraft |-> <<PyInt(Len(spacecrafts))>>,
    temperature |-> <<observed["temperature"]>>,
    wind_speed |-> <<observed["wind_speed"]>>,
    cloud_cover |-> <<observed["cloud_cover"]>> ]

\* pd.DataFrame(data), line 490, of columns of equal length: the columns and
\* the row labels 0..n-1.
DataFrame(data) ==
  LET rows == Len(data[CHOOSE c \in DOMAIN data : TRUE])
  IN [ columns |-> data, index |-> [i \in 1..rows |-> i - 1] ]

\* combine_data(enriched_astronauts, weather), lines 436-493.
CombineData(astronauts, observed) ==
  LET number_of_astronauts == Len(astronauts)
      spacecrafts == SpacecraftsLoop(astronauts, 1, <<>>)
      missing == {k \in {"timestamp", "temperature", "wind_speed", "cloud_cover"} :
                    k \notin DOMAIN observed}
  IN IF spacecrafts.status = "raised" THEN spacecrafts
     ELSE IF "timestamp" \in missing THEN Raised(KeyError("timestamp"))
     ELSE IF "temperature" \in missing THEN Raised(KeyError("temperature"))
     ELSE IF "wind_speed" \in missing THEN Raised(KeyError("wind_speed"))
     ELSE IF "cloud_cover" \in missing THEN Raised(KeyError("cloud_cover"))
     ELSE Returned(DataFrame(CombinedData(number_of_astronauts, spacecrafts.value,
                                          observed)))

\* analyze_correlation(df), lines 986-1021: int() and float() of the first
\* row's values; float(None) raises TypeError.
AnalyzeCorrelation(df) ==
  LET first(c) == df.columns[c][1] IN
    IF \E c \in {"temperature", "wind_speed", "cloud_cover"} : first(c) = None
    THEN Raised([type |-> "TypeError", args |-> <<>>])
    ELSE Returned(
           [ message |-> Str("Single data point collected. Correlation analysis requires historical data."),
             data_collected |->
               [ num_astronauts |-> first("num_astronauts"),
                 temperature |-> first("temperature"),
                 wind_speed |-> first("wind_speed"),
                 cloud_cover |-> first("cloud_cover") ] ])

(***************************************************************************)
(* summarize_weather_conditions, lines 923-983.                            *)
(***************************************************************************)
\* Lines 929-954.
weather_code_descriptions ==
  (0 :> "Clear sky") @@ (1 :> "Mainly clear") @@ (2 :> "Partly cloudy")
    @@ (3 :> "Overcast") @@ (45 :> "Fog") @@ (48 :> "Depositing rime fog")
    @@ (51 :> "Light drizzle") @@ (53 :> "Moderate drizzle")
    @@ (55 :> "Dense drizzle") @@ (61 :> "Slight rain") @@ (63 :> "Moderate rain")
    @@ (65 :> "Heavy rain") @@ (71 :> "Slight snow fall")
    @@ (73 :> "Moderate snow fall") @@ (75 :> "Heavy snow fall")
    @@ (77 :> "Snow grains") @@ (80 :> "Slight rain showers")
    @@ (81 :> "Moderate rain showers") @@ (82 :> "Violent rain showers")
    @@ (85 :> "Slight snow showers") @@ (86 :> "Heavy snow showers")
    @@ (95 :> "Thunderstorm") @@ (96 :> "Thunderstorm with slight hail")
    @@ (99 :> "Thunderstorm with heavy hail")

\* The decimal digits of a natural number.
RECURSIVE Digits(_)
Digits(n) ==
  LET digit == <<"0", "1", "2", "3", "4", "5", "6", "7", "8", "9">>[(n % 10) + 1]
  IN IF n < 10 THEN digit ELSE Digits(n \div 10) \o digit

\* The text an f-string puts for a value: an int in decimal, None as "None".
Format(v) ==
  IF v = None THEN "None"
  ELSE IF v[2] < 0 THEN "-" \o Digits(-v[2]) ELSE Digits(v[2])

\* Mutant of WeatherDescription: weather_code_descriptions[weather_code].
WeatherDescriptionSubscript(weather_code) ==
  IF IsNum(weather_code) /\ weather_code[3] = 1
       /\ weather_code[2] \in DOMAIN weather_code_descriptions
  THEN Returned(Str(weather_code_descriptions[weather_code[2]]))
  ELSE Raised([type |-> "KeyError", args |-> <<weather_code>>])

\* Lines 957-959: the description of a code, an int or None.
WeatherDescription(weather_code) ==
  IF IsNum(weather_code) /\ weather_code[3] = 1
       /\ weather_code[2] \in DOMAIN weather_code_descriptions
  THEN Returned(Str(weather_code_descriptions[weather_code[2]]))
  ELSE Returned(Str("Unknown (code: " \o Format(weather_code) \o ")"))

\* summarize_weather_conditions(weather), lines 956-983.
SummarizeWeatherConditions(observed) ==
  LET weather_code == DictGetOr(observed, "weather_code", PyInt(0))
      weather_description == WeatherDescription(weather_code)
  IN IF weather_description.status = "raised" THEN weather_description
     ELSE Returned([ temperature |-> DictGet(observed, "temperature"),
                     humidity |-> DictGet(observed, "humidity"),
                     wind_speed |-> DictGet(observed, "wind_speed"),
                     cloud_cover |-> DictGet(observed, "cloud_cover"),
                     weather_description |-> weather_description.value,
                     weather_code |-> weather_code,
                     timestamp |-> DictGet(observed, "timestamp") ])

(***************************************************************************)
(* The random module, lines 630 and 750: its functions draw from one       *)
(* generator of the interpreter.  A generator is the stream its seed       *)
(* fixes and the number of words drawn from it; a word is low or high.     *)
(***************************************************************************)
RandomWords == {0, 1}

\* random.randint(a, b) and random.choice(choices) of a word.
RandInt(word, a, b) == IF word = 0 THEN a ELSE b
RandChoice(word, choices) == IF word = 0 THEN choices[1] ELSE choices[Len(choices)]

\* The draws of one pass of each loop.
DrawsPerEvaluation == 5
DrawsPerDemographics == 4

\* Lines 645-649 for the i-th astronaut, the generator being at position
\* drawn when the task starts.
VitalsDrawn(stream, drawn, i) ==
  LET at == drawn + (i - 1) * DrawsPerEvaluation IN
    [ oxygen_saturation |-> RandInt(stream[at + 1], 92, 100),
      heart_rate |-> RandInt(stream[at + 2], 55, 115),
      systolic_bp |-> RandInt(stream[at + 3], 100, 145),
      diastolic_bp |-> RandInt(stream[at + 4], 60, 95),
      body_temp |-> RandInt(stream[at + 5], 361, 382) ]

\* Lines 772-775 for the i-th astronaut.
DemographicsDrawn(stream, drawn, i) ==
  LET at == drawn + (i - 1) * DrawsPerDemographics IN
    [ gender |-> RandChoice(stream[at + 1], genders),
      nationality |-> RandChoice(stream[at + 2], nationalities),
      experience_level |-> RandChoice(stream[at + 3], experience_levels),
      missions_completed |-> PyInt(RandInt(stream[at + 4], 0, 6)) ]

(***************************************************************************)
(* Inputs.                                                                 *)
(***************************************************************************)
SeqsUpTo(S, n) == UNION {[1..k -> S] : k \in 0..n}

\* A JSON object with the given name and craft; Absent leaves the key out.
Absent == <<"absent">>
RawRecord(name, craft) ==
  [k \in (IF name = Absent THEN {} ELSE {"name"})
           \cup (IF craft = Absent THEN {} ELSE {"craft"})
     |-> IF k = "name" THEN name ELSE craft]

\* Records of the payload of api.open-notify.org, line 64: catalogued
\* crafts, uncatalogued ones (one differing only in case, one only in
\* spacing), a JSON null, and objects lacking a key.
RawNames == {Str("A"), Str("B"), Absent}
RawCrafts == {Str("ISS"), Str("Tiangong"), Str("Shenzhou"), Str("Mir"),
              Str("iss"), Str("ISS "), None, Absent}
RawRecords == {RawRecord(n, c) : n \in RawNames, c \in RawCrafts}
RawLists == SeqsUpTo(RawRecords, MaxAstronauts)

\* Records handed to calculate_mission_distance: name, craft and the two
\* fields it reads, each known, zero, null or left out.
EnrichedRecord(name, craft, speed, period) ==
  [k \in {"name", "craft"}
           \cup (IF speed = Absent THEN {} ELSE {"orbital_speed_kmh"})
           \cup (IF period = Absent THEN {} ELSE {"orbital_period_min"})
     |-> CASE k = "name" -> name
           [] k = "craft" -> craft
           [] k = "orbital_speed_kmh" -> speed
           [] k = "orbital_period_min" -> period]
EnrichedRecords ==
  {EnrichedRecord(n, c, s, p) :
     n \in {Str("A"), Str("B")}, c \in {Str("ISS"), Str("Mir")},
     s \in {PyInt(27600), PyInt(27840), PyInt(0), None, Absent},
     p \in {Num(2317, 25), Num(458, 5), None}}
EnrichedLists == SeqsUpTo(EnrichedRecords, MaxAstronauts)

\* Those of them whose speed is not zero.
MovingRecords ==
  {r \in EnrichedRecords : DictGet(r, "orbital_speed_kmh") # PyInt(0)}
MovingLists == SeqsUpTo(MovingRecords, MaxAstronauts)

NoVitals == [oxygen_saturation |-> 0, heart_rate |-> 0, systolic_bp |-> 0,
             diastolic_bp |-> 0, body_temp |-> 0]

\* The draws of lines 645-649: randint(92, 100), and of randint(55, 115),
\* randint(100, 145), randint(60, 95) and round(uniform(36.1, 38.2), 1) the
\* ends of the range, a value inside each band and both sides of every
\* threshold of the scoring that lies in the range.
SimulatedVitals ==
  [ oxygen_saturation : 92..100,
    heart_rate : {55, 59, 60, 80, 100, 101, 115},
    systolic_bp : {100, 120, 130, 131, 140, 141, 145},
    diastolic_bp : {60, 80, 85, 86, 95},
    body_temp : {361, 364, 365, 370, 375, 376, 380, 381, 382} ]

\* current_weather of lines 279-286 with the given temperature and code
\* (Absent leaves the code out).
Observation(temperature, weather_code) ==
  [k \in {"temperature", "humidity", "wind_speed", "cloud_cover", "timestamp"}
           \cup (IF weather_code = Absent THEN {} ELSE {"weather_code"})
     |-> CASE k = "temperature" -> temperature
           [] k = "humidity" -> PyInt(78)
           [] k = "wind_speed" -> Num(123, 10)
           [] k = "cloud_cover" -> PyInt(40)
           [] k = "weather_code" -> weather_code
           [] k = "timestamp" -> Str("2024-05-01T12:00")]

\* What get_weather_data returns, sampled: a temperature above and below
\* zero or a JSON null, a code of the table and one outside it.
WeatherObservations ==
  {Observation(t, c) : t \in {Num(271, 10), Num(-35, 10), None},
                       c \in {PyInt(0), PyInt(999)}}

\* The dicts handed to summarize_weather_conditions: every code from -1 to
\* 100, 999, a null code and a dict without the key.
SummarizedCodes == {PyInt(c) : c \in (-1..100) \cup {999}} \cup {None, Absent}
SummarizedObservations ==
  {Observation(t, c) : t \in {Num(271, 10)}, c \in SummarizedCodes}

\* Lists handed to enrich_spacecraft_data ahead of combine_data.
CombinedRecords ==
  {RawRecord(n, c) : n \in {Str("A"), Str("B")},
                     c \in {Str("ISS"), Str("Shenzhou"), Str("Mir")}}
CombinedLists == SeqsUpTo(CombinedRecords, MaxGrouped)

\* Payloads of the whole DAG, sampled: no astronaut, one on a catalogued
\* craft, one whose object lacks craft, one whose object lacks name.
SampledPayloads ==
  { <<>>,
    <<RawRecord(Str("A"), Str("ISS"))>>,
    <<RawRecord(Str("A"), Absent)>>,
    <<RawRecord(Absent, Str("ISS"))>> }

\* Vitals of the whole task, sampled from the draws: all normal, and low
\* oxygen with a fast heart.
SampledVitals ==
  { [oxygen_saturation |-> 98, heart_rate |-> 80, systolic_bp |-> 120,
     diastolic_bp |-> 80, body_temp |-> 370],
    [oxygen_saturation |-> 93, heart_rate |-> 101, systolic_bp |-> 120,
     diastolic_bp |-> 80, body_temp |-> 370] }

\* Lists handed to the grouping tasks: up to MaxGrouped records, names and
\* crafts repeating, a null craft among them.
GroupedRecords ==
  {RawRecord(n, c) : n \in {Str("A"), Str("B"), Str("C")},
                     c \in {Str("ISS"), Str("Shenzhou"), None}}
GroupedLists == SeqsUpTo(GroupedRecords, MaxGrouped)

\* Lists handed to both grouping tasks: the same, and records that lack a
\* field among them.
PairedRecords ==
  {RawRecord(n, c) : n \in {Str("A"), Str("B")},
                     c \in {Str("ISS"), Str("Shenzhou"), None}}
    \cup {RawRecord(Str("A"), Absent), RawRecord(Absent, Str("ISS"))}
PairedLists == SeqsUpTo(PairedRecords, MaxGrouped)

\* The first n of the names a crew's members are given.
CrewNames == <<"A", "B", "C", "D", "E", "F">>
CrewOn(craft, n) == [i \in 1..n |-> RawRecord(Str(CrewNames[i]), Str(craft))]

\* Lists handed to analyze_team_diversity: no astronaut, a crew of up to
\* MaxCrew on one craft, and two crafts whose records alternate.
DiversityLists ==
  {CrewOn("ISS", n) : n \in 0..MaxCrew}
    \cup {<<RawRecord(Str("A"), Str("ISS")), RawRecord(Str("B"), Str("Tiangong"))>>,
          <<RawRecord(Str("A"), Str("ISS")), RawRecord(Str("B"), Str("Tiangong")),
            RawRecord(Str("C"), Str("ISS"))>>}

\* Lists handed to every task that takes the raw list: none, one astronaut,
\* two on one craft, two on two crafts, one name twice, three on two crafts.
TeamLists ==
  { <<>>,
    <<RawRecord(Str("A"), Str("ISS"))>>,
    <<RawRecord(Str("A"), Str("ISS")), RawRecord(Str("B"), Str("ISS"))>>,
    <<RawRecord(Str("A"), Str("ISS")), RawRecord(Str("B"), Str("Tiangong"))>>,
    <<RawRecord(Str("A"), Str("Mir")), RawRecord(Str("A"), Str("Mir"))>>,
    <<RawRecord(Str("A"), Str("ISS")), RawRecord(Str("B"), Str("Tiangong")),
      RawRecord(Str("C"), Str("ISS"))>> }

\* The value of choices drawn for the astronaut before, and the one after
\* it in the list; the first value for the first astronaut.
NextChoices(choices, drawn, field) ==
  IF drawn = <<>>
  THEN {choices[1]}
  ELSE LET last == CHOOSE j \in 1..Len(choices) :
                     choices[j] = drawn[Len(drawn)][field]
       IN {choices[j] : j \in {last, last + 1} \cap 1..Len(choices)}

\* The draws of lines 772-775 sampled for the next astronaut, after those
\* in drawn: random.choice giving the category of the astronaut before or
\* the next one of the list, randint(0, 6) giving 0 or 6 and not less than
\* for the astronaut before.  The sizes in which a crew splits over the
\* categories of a dimension all occur among them, for each dimension
\* independently of the others.
NextDemographics(drawn) ==
  [ gender : NextChoices(genders, drawn, "gender"),
    nationality : NextChoices(nationalities, drawn, "nationality"),
    experience_level : NextChoices(experience_levels, drawn, "experience_level"),
    missions_completed :
      IF drawn # <<>> /\ drawn[Len(drawn)].missions_completed = PyInt(6)
      THEN {PyInt(6)} ELSE {PyInt(0), PyInt(6)} ]

RECURSIVE SimulatedDemographics(_)
SimulatedDemographics(n) ==
  IF n = 0
  THEN {<<>>}
  ELSE UNION {{Append(drawn, d) : d \in NextDemographics(drawn)} :
                drawn \in SimulatedDemographics(n - 1)}

(***************************************************************************)
(* The tasks.                                                              *)
(***************************************************************************)
\* get_astronauts, lines 51-80: returns data["people"], or re-raises what
\* the request or the parsing raised.
get_astronauts ==
  /\ astronaut_list.status = "pending"
  /\ \/ \E people \in RawLists, number \in 0..MaxAstronauts :
          /\ astronaut_list' = Returned(people)
          /\ number_of_people_in_space' = PyInt(number)
     \/ \E e \in {[type |-> "RequestException", args |-> <<>>],
                  [type |-> "ValueError", args |-> <<>>],
                  KeyError("number"), KeyError("people")} :
          /\ astronaut_list' = Raised(e)
          /\ UNCHANGED number_of_people_in_space
  /\ UNCHANGED <<astronaut_list_after, enriched_astronauts, spacecraft_groups,
                 astronaut_distances, vitals, health_evaluation, team_demographics,
                 team_diversity, weather, combined, weather_summary, spacecraft_assignments,
                 health_evaluations, displayed_astronauts, displayed_history, correlation,
                 random_stream, random_position>>

\* Mutant of enrich_spacecraft_data: it does not wait for get_astronauts.
enrich_spacecraft_data_unordered ==
  /\ astronaut_list.status # "raised"
  /\ enriched_astronauts.status = "pending"
  /\ LET call == EnrichSpacecraftData(astronaut_list.value) IN
       /\ enriched_astronauts' = call.outcome
       /\ astronaut_list_after' = Returned(call.input_after)
  /\ UNCHANGED <<astronaut_list, number_of_people_in_space, spacecraft_groups,
                 astronaut_distances, vitals, health_evaluation, team_demographics,
                 team_diversity, weather, combined, weather_summary, spacecraft_assignments,
                 health_evaluations, displayed_astronauts, displayed_history, correlation,
                 random_stream, random_position>>

\* enrich_spacecraft_data(astronaut_list), line 1025.
enrich_spacecraft_data ==
  /\ astronaut_list.status = "returned"
  /\ enriched_astronauts.status = "pending"
  /\ LET call == EnrichSpacecraftData(astronaut_list.value) IN
       /\ enriched_astronauts' = call.outcome
       /\ astronaut_list_after' = Returned(call.input_after)
  /\ UNCHANGED <<astronaut_list, number_of_people_in_space, spacecraft_groups,
                 astronaut_distances, vitals, health_evaluation, team_demographics,
                 team_diversity, weather, combined, weather_summary, spacecraft_assignments,
                 health_evaluations, displayed_astronauts, displayed_history, correlation,
                 random_stream, random_position>>

\* filter_astronauts_by_craft(astronaut_list), line 1029.
filter_astronauts_by_craft ==
  /\ astronaut_list.status = "returned"
  /\ spacecraft_groups.status = "pending"
  /\ spacecraft_groups' = FilterAstronautsByCraft(astronaut_list.value)
  /\ UNCHANGED <<astronaut_list, number_of_people_in_space, astronaut_list_after,
                 enriched_astronauts, astronaut_distances, vitals, health_evaluation,
                 team_demographics, team_diversity, weather, combined, weather_summary,
                 spacecraft_assignments, health_evaluations, displayed_astronauts,
                 displayed_history, correlation, random_stream, random_position>>

\* Mutant of calculate_mission_distance: it is handed the raw list.
calculate_mission_distance_of_raw_list ==
  /\ astronaut_list.status = "returned"
  /\ astronaut_distances.status = "pending"
  /\ astronaut_distances' = CalculateMissionDistance(astronaut_list.value)
  /\ UNCHANGED <<astronaut_list, number_of_people_in_space, astronaut_list_after,
                 enriched_astronauts, spacecraft_groups, vitals, health_evaluation,
                 team_demographics, team_diversity, weather, combined, weather_summary,
                 spacecraft_assignments, health_evaluations, displayed_astronauts,
                 displayed_history, correlation, random_stream, random_position>>

\* calculate_mission_distance(enriched_astronauts), line 1041.
calculate_mission_distance ==
  /\ enriched_astronauts.status = "returned"
  /\ astronaut_distances.status = "pending"
  /\ astronaut_distances' = CalculateMissionDistance(enriched_astronauts.value)
  /\ UNCHANGED <<astronaut_list, number_of_people_in_space, astronaut_list_after,
                 enriched_astronauts, spacecraft_groups, vitals, health_evaluation,
                 team_demographics, team_diversity, weather, combined, weather_summary,
                 spacecraft_assignments, health_evaluations, displayed_astronauts,
                 displayed_history, correlation, random_stream, random_position>>

\* One pass of the loop of evaluate_health_metrics, lines 645-711: the
\* vitals of one astronaut are drawn and evaluated.
evaluate_health_metrics_pass ==
  /\ health_evaluation.status = "pending"
  /\ \E drawn \in SimulatedVitals :
       /\ vitals' = drawn
       /\ health_evaluation' = Returned(EvaluateVitals(drawn))
  /\ UNCHANGED <<astronaut_list, number_of_people_in_space, astronaut_list_after,
                 enriched_astronauts, spacecraft_groups, astronaut_distances, team_demographics,
                 team_diversity, weather, combined, weather_summary, spacecraft_assignments,
                 health_evaluations, displayed_astronauts, displayed_history, correlation,
                 random_stream, random_position>>

\* analyze_team_diversity(astronaut_list), line 1038: the demographics of
\* every astronaut are drawn (lines 770-776), then the crews are analysed.
analyze_team_diversity ==
  /\ astronaut_list.status = "returned"
  /\ team_diversity.status = "pending"
  /\ \E drawn \in SimulatedDemographics(Len(astronaut_list.value)) :
       LET data == [i \in 1..Len(drawn) |->
                      WithDemographics(astronaut_list.value[i], drawn[i])]
       IN /\ team_demographics' = data
          /\ team_diversity' = AnalyzeTeamDiversity(data)
  /\ UNCHANGED <<astronaut_list, number_of_people_in_space, astronaut_list_after,
                 enriched_astronauts, spacecraft_groups, astronaut_distances, vitals,
                 health_evaluation, weather, combined, weather_summary, spacecraft_assignments,
                 health_evaluations, displayed_astronauts, displayed_history, correlation,
                 random_stream, random_position>>

\* get_weather_data, lines 256-298: returns current_weather, or re-raises
\* what the request or the parsing raised.
get_weather_data ==
  /\ weather.status = "pending"
  /\ \/ \E observed \in WeatherObservations : weather' = Returned(observed)
     \/ \E e \in {[type |-> "RequestException", args |-> <<>>],
                  [type |-> "ValueError", args |-> <<>>],
                  KeyError("current")} :
          weather' = Raised(e)
  /\ UNCHANGED <<astronaut_list, number_of_people_in_space, astronaut_list_after,
                 enriched_astronauts, spacecraft_groups, astronaut_distances, vitals,
                 health_evaluation, team_demographics, team_diversity, combined, weather_summary,
                 spacecraft_assignments, health_evaluations, displayed_astronauts,
                 displayed_history, correlation, random_stream, random_position>>

\* combine_data(enriched_astronauts, weather), line 1053.
combine_data ==
  /\ enriched_astronauts.status = "returned"
  /\ weather.status = "returned"
  /\ combined.status = "pending"
  /\ combined' = CombineData(enriched_astronauts.value, weather.value)
  /\ UNCHANGED <<astronaut_list, number_of_people_in_space, astronaut_list_after,
                 enriched_astronauts, spacecraft_groups, astronaut_distances, vitals,
                 health_evaluation, team_demographics, team_diversity, weather, weather_summary,
                 spacecraft_assignments, health_evaluations, displayed_astronauts,
                 displayed_history, correlation, random_stream, random_position>>

\* summarize_weather_conditions(weather), line 1044.
summarize_weather_conditions ==
  /\ weather.status = "returned"
  /\ weather_summary.status = "pending"
  /\ weather_summary' = SummarizeWeatherConditions(weather.value)
  /\ UNCHANGED <<astronaut_list, number_of_people_in_space, astronaut_list_after,
                 enriched_astronauts, spacecraft_groups, astronaut_distances, vitals,
                 health_evaluation, team_demographics, team_diversity, weather, combined,
                 spacecraft_assignments, health_evaluations, displayed_astronauts,
                 displayed_history, correlation, random_stream, random_position>>

\* get_astronauts returning one of the sampled payloads.
get_astronauts_sampled ==
  /\ astronaut_list.status = "pending"
  /\ \/ \E people \in SampledPayloads :
          /\ astronaut_list' = Returned(people)
          /\ number_of_people_in_space' = PyInt(Len(people))
     \/ \E e \in {[type |-> "RequestException", args |-> <<>>]} :
          /\ astronaut_list' = Raised(e)
          /\ UNCHANGED number_of_people_in_space
  /\ UNCHANGED <<astronaut_list_after, enriched_astronauts, spacecraft_groups,
                 astronaut_distances, vitals, health_evaluation, team_demographics,
                 team_diversity, weather, combined, weather_summary, spacecraft_assignments,
                 health_evaluations, displayed_astronauts, displayed_history, correlation,
                 random_stream, random_position>>

\* map_spacecraft_assignments(astronaut_list), line 1032.
map_spacecraft_assignments ==
  /\ astronaut_list.status = "returned"
  /\ spacecraft_assignments.status = "pending"
  /\ spacecraft_assignments' = MapSpacecraftAssignments(astronaut_list.value)
  /\ UNCHANGED <<astronaut_list, number_of_people_in_space, astronaut_list_after,
                 enriched_astronauts, spacecraft_groups, astronaut_distances, vitals,
                 health_evaluation, team_demographics, team_diversity, weather, combined,
                 weather_summary, health_evaluations, displayed_astronauts, displayed_history,
                 correlation, random_stream, random_position>>

\* evaluate_health_metrics(astronaut_list), line 1035.
evaluate_health_metrics ==
  /\ astronaut_list.status = "returned"
  /\ health_evaluations.status = "pending"
  /\ \E drawn \in [1..Len(astronaut_list.value) -> SampledVitals] :
       health_evaluations' = EvaluateHealthMetrics(astronaut_list.value, drawn)
  /\ UNCHANGED <<astronaut_list, number_of_people_in_space, astronaut_list_after,
                 enriched_astronauts, spacecraft_groups, astronaut_distances, vitals,
                 health_evaluation, team_demographics, team_diversity, weather, combined,
                 weather_summary, spacecraft_assignments, displayed_astronauts,
                 displayed_history, correlation, random_stream, random_position>>

\* display_enriched_astronaut_data(enriched_astronauts), line 1047.
display_enriched_astronaut_data ==
  /\ enriched_astronauts.status = "returned"
  /\ displayed_astronauts.status = "pending"
  /\ displayed_astronauts' = DisplayEnrichedAstronautData(enriched_astronauts.value)
  /\ UNCHANGED <<astronaut_list, number_of_people_in_space, astronaut_list_after,
                 enriched_astronauts, spacecraft_groups, astronaut_distances, vitals,
                 health_evaluation, team_demographics, team_diversity, weather, combined,
                 weather_summary, spacecraft_assignments, health_evaluations, displayed_history,
                 correlation, random_stream, random_position>>

\* display_spacecraft_history(enriched_astronauts), line 1050.
display_spacecraft_history ==
  /\ enriched_astronauts.status = "returned"
  /\ displayed_history.status = "pending"
  /\ displayed_history' = DisplaySpacecraftHistory(enriched_astronauts.value)
  /\ UNCHANGED <<astronaut_list, number_of_people_in_space, astronaut_list_after,
                 enriched_astronauts, spacecraft_groups, astronaut_distances, vitals,
                 health_evaluation, team_demographics, team_diversity, weather, combined,
                 weather_summary, spacecraft_assignments, health_evaluations,
                 displayed_astronauts, correlation, random_stream, random_position>>

\* analyze_correlation(combined), line 1054.
analyze_correlation ==
  /\ combined.status = "returned"
  /\ correlation.status = "pending"
  /\ correlation' = AnalyzeCorrelation(combined.value)
  /\ UNCHANGED <<astronaut_list, number_of_people_in_space, astronaut_list_after,
                 enriched_astronauts, spacecraft_groups, astronaut_distances, vitals,
                 health_evaluation, team_demographics, team_diversity, weather, combined,
                 weather_summary, spacecraft_assignments, health_evaluations,
                 displayed_astronauts, displayed_history, random_stream, random_position>>

\* evaluate_health_metrics(astronaut_list) with its draws taken from the
\* generator of the random module.
evaluate_health_metrics_drawing ==
  /\ astronaut_list.status = "returned"
  /\ health_evaluations.status = "pending"
  /\ LET n == Len(astronaut_list.value) IN
       /\ health_evaluations' =
            EvaluateHealthMetrics(astronaut_list.value,
              [i \in 1..n |-> VitalsDrawn(random_stream, random_position, i)])
       /\ random_position' = random_position + n * DrawsPerEvaluation
  /\ UNCHANGED <<astronaut_list, number_of_people_in_space, astronaut_list_after,
                 enriched_astronauts, spacecraft_groups, astronaut_distances, vitals,
                 health_evaluation, team_demographics, team_diversity, weather, combined,
                 weather_summary, spacecraft_assignments, displayed_astronauts,
                 displayed_history, correlation, random_stream>>

\* analyze_team_diversity(astronaut_list) with its draws taken from the
\* generator of the random module.
analyze_team_diversity_drawing ==
  /\ astronaut_list.status = "returned"
  /\ team_diversity.status = "pending"
  /\ LET n == Len(astronaut_list.value)
         data == [i \in 1..n |->
                    WithDemographics(astronaut_list.value[i],
                      DemographicsDrawn(random_stream, random_position, i))]
     IN /\ team_demographics' = data
        /\ team_diversity' = AnalyzeTeamDiversity(data)
        /\ random_position' = random_position + n * DrawsPerDemographics
  /\ UNCHANGED <<astronaut_list, number_of_people_in_space, astronaut_list_after,
                 enriched_astronauts, spacecraft_groups, astronaut_distances, vitals,
                 health_evaluation, weather, combined, weather_summary, spacecraft_assignments,
                 health_evaluations, displayed_astronauts, displayed_history, correlation,
                 random_stream>>

(***************************************************************************)
(* Specifications.                                                         *)
(***************************************************************************)
\* The raw astronaut list and the two tasks of this model that consume it.
InitEnrich ==
  /\ astronaut_list = Pending
  /\ number_of_people_in_space = None
  /\ astronaut_list_after = Pending
  /\ enriched_astronauts = Pending
  /\ spacecraft_groups = Pending
  /\ astronaut_distances = Pending
  /\ vitals = NoVitals
  /\ health_evaluation = Pending
  /\ team_demographics = <<>>
  /\ team_diversity = Pending
  /\ weather = Pending
  /\ combined = Pending
  /\ weather_summary = Pending
  /\ spacecraft_assignments = Pending
  /\ health_evaluations = Pending
  /\ displayed_astronauts = Pending
  /\ displayed_history = Pending
  /\ correlation = Pending
  /\ random_stream = <<>>
  /\ random_position = 0

NextEnrich ==
  \/ get_astronauts
  \/ enrich_spacecraft_data
  \/ filter_astronauts_by_craft

SpecEnrich == InitEnrich /\ [][NextEnrich]_vars

\* calculate_mission_distance on any list of enriched records.
InitDistance ==
  /\ astronaut_list = Pending
  /\ number_of_people_in_space = None
  /\ astronaut_list_after = Pending
  /\ enriched_astronauts \in {Returned(l) : l \in EnrichedLists}
  /\ spacecraft_groups = Pending
  /\ astronaut_distances = Pending
  /\ vitals = NoVitals
  /\ health_evaluation = Pending
  /\ team_demographics = <<>>
  /\ team_diversity = Pending
  /\ weather = Pending
  /\ combined = Pending
  /\ weather_summary = Pending
  /\ spacecraft_assignments = Pending
  /\ health_evaluations = Pending
  /\ displayed_astronauts = Pending
  /\ displayed_history = Pending
  /\ correlation = Pending
  /\ random_stream = <<>>
  /\ random_position = 0

NextDistance == calculate_mission_distance

SpecDistance == InitDistance /\ [][NextDistance]_vars

\* calculate_mission_distance on the lists in which no speed is zero.
InitOrbits ==
  /\ astronaut_list = Pending
  /\ number_of_people_in_space = None
  /\ astronaut_list_after = Pending
  /\ enriched_astronauts \in {Returned(l) : l \in MovingLists}
  /\ spacecraft_groups = Pending
  /\ astronaut_distances = Pending
  /\ vitals = NoVitals
  /\ health_evaluation = Pending
  /\ team_demographics = <<>>
  /\ team_diversity = Pending
  /\ weather = Pending
  /\ combined = Pending
  /\ weather_summary = Pending
  /\ spacecraft_assignments = Pending
  /\ health_evaluations = Pending
  /\ displayed_astronauts = Pending
  /\ displayed_history = Pending
  /\ correlation = Pending
  /\ random_stream = <<>>
  /\ random_position = 0

SpecOrbits == InitOrbits /\ [][NextDistance]_vars

\* The health scoring of one astronaut.
InitHealth ==
  /\ astronaut_list = Pending
  /\ number_of_people_in_space = None
  /\ astronaut_list_after = Pending
  /\ enriched_astronauts = Pending
  /\ spacecraft_groups = Pending
  /\ astronaut_distances = Pending
  /\ vitals = NoVitals
  /\ health_evaluation = Pending
  /\ team_demographics = <<>>
  /\ team_diversity = Pending
  /\ weather = Pending
  /\ combined = Pending
  /\ weather_summary = Pending
  /\ spacecraft_assignments = Pending
  /\ health_evaluations = Pending
  /\ displayed_astronauts = Pending
  /\ displayed_history = Pending
  /\ correlation = Pending
  /\ random_stream = <<>>
  /\ random_position = 0

NextHealth == evaluate_health_metrics_pass

SpecHealth == InitHealth /\ [][NextHealth]_vars

\* analyze_team_diversity on a crew list.
InitDiversity ==
  /\ astronaut_list \in {Returned(l) : l \in DiversityLists}
  /\ number_of_people_in_space = None
  /\ astronaut_list_after = Pending
  /\ enriched_astronauts = Pending
  /\ spacecraft_groups = Pending
  /\ astronaut_distances = Pending
  /\ vitals = NoVitals
  /\ health_evaluation = Pending
  /\ team_demographics = <<>>
  /\ team_diversity = Pending
  /\ weather = Pending
  /\ combined = Pending
  /\ weather_summary = Pending
  /\ spacecraft_assignments = Pending
  /\ health_evaluations = Pending
  /\ displayed_astronauts = Pending
  /\ displayed_history = Pending
  /\ correlation = Pending
  /\ random_stream = <<>>
  /\ random_position = 0

NextDiversity == analyze_team_diversity

SpecDiversity == InitDiversity /\ [][NextDiversity]_vars

\* filter_astronauts_by_craft on a list of records with name and craft.
InitGrouping ==
  /\ astronaut_list \in {Returned(l) : l \in GroupedLists}
  /\ number_of_people_in_space = None
  /\ astronaut_list_after = Pending
  /\ enriched_astronauts = Pending
  /\ spacecraft_groups = Pending
  /\ astronaut_distances = Pending
  /\ vitals = NoVitals
  /\ health_evaluation = Pending
  /\ team_demographics = <<>>
  /\ team_diversity = Pending
  /\ weather = Pending
  /\ combined = Pending
  /\ weather_summary = Pending
  /\ spacecraft_assignments = Pending
  /\ health_evaluations = Pending
  /\ displayed_astronauts = Pending
  /\ displayed_history = Pending
  /\ correlation = Pending
  /\ random_stream = <<>>
  /\ random_position = 0

NextGrouping == filter_astronauts_by_craft

SpecGrouping == InitGrouping /\ [][NextGrouping]_vars

\* combine_data on the enrichment of a list and a weather observation.
InitCombine ==
  /\ \E l \in CombinedLists :
       /\ astronaut_list = Returned(l)
       /\ astronaut_list_after = Returned(l)
       /\ enriched_astronauts = EnrichSpacecraftData(l).outcome
  /\ number_of_people_in_space = None
  /\ spacecraft_groups = Pending
  /\ astronaut_distances = Pending
  /\ vitals = NoVitals
  /\ health_evaluation = Pending
  /\ team_demographics = <<>>
  /\ team_diversity = Pending
  /\ weather = Pending
  /\ combined = Pending
  /\ weather_summary = Pending
  /\ spacecraft_assignments = Pending
  /\ health_evaluations = Pending
  /\ displayed_astronauts = Pending
  /\ displayed_history = Pending
  /\ correlation = Pending
  /\ random_stream = <<>>
  /\ random_position = 0

NextCombine ==
  \/ get_weather_data
  \/ combine_data

SpecCombine == InitCombine /\ [][NextCombine]_vars

\* summarize_weather_conditions on any weather dict.
InitSummary ==
  /\ weather \in {Returned(w) : w \in SummarizedObservations}
  /\ astronaut_list = Pending
  /\ number_of_people_in_space = None
  /\ astronaut_list_after = Pending
  /\ enriched_astronauts = Pending
  /\ spacecraft_groups = Pending
  /\ astronaut_distances = Pending
  /\ vitals = NoVitals
  /\ health_evaluation = Pending
  /\ team_demographics = <<>>
  /\ team_diversity = Pending
  /\ combined = Pending
  /\ weather_summary = Pending
  /\ spacecraft_assignments = Pending
  /\ health_evaluations = Pending
  /\ displayed_astronauts = Pending
  /\ displayed_history = Pending
  /\ correlation = Pending
  /\ random_stream = <<>>
  /\ random_position = 0

NextSummary == summarize_weather_conditions

SpecSummary == InitSummary /\ [][NextSummary]_vars

\* The DAG of lines 1024-1054: every task, run once its arguments are
\* there.
InitDag ==
  /\ astronaut_list = Pending
  /\ number_of_people_in_space = None
  /\ astronaut_list_after = Pending
  /\ enriched_astronauts = Pending
  /\ spacecraft_groups = Pending
  /\ astronaut_distances = Pending
  /\ vitals = NoVitals
  /\ health_evaluation = Pending
  /\ team_demographics = <<>>
  /\ team_diversity = Pending
  /\ weather = Pending
  /\ combined = Pending
  /\ weather_summary = Pending
  /\ spacecraft_assignments = Pending
  /\ health_evaluations = Pending
  /\ displayed_astronauts = Pending
  /\ displayed_history = Pending
  /\ correlation = Pending
  /\ random_stream = <<>>
  /\ random_position = 0

NextDag ==
  \/ get_astronauts_sampled
  \/ enrich_spacecraft_data
  \/ get_weather_data
  \/ filter_astronauts_by_craft
  \/ map_spacecraft_assignments
  \/ evaluate_health_metrics
  \/ analyze_team_diversity
  \/ calculate_mission_distance
  \/ summarize_weather_conditions
  \/ display_enriched_astronaut_data
  \/ display_spacecraft_history
  \/ combine_data
  \/ analyze_correlation

SpecDag == InitDag /\ [][NextDag]_vars

\* The two simulations in one interpreter, on one astronaut: the generator
\* has been seeded, which fixes its stream.
InitRandom ==
  /\ astronaut_list = Returned(<<RawRecord(Str("A"), Str("ISS"))>>)
  /\ random_stream \in [1..(DrawsPerEvaluation + DrawsPerDemographics) -> RandomWords]
  /\ random_position = 0
  /\ number_of_people_in_space = None
  /\ astronaut_list_after = Pending
  /\ enriched_astronauts = Pending
  /\ spacecraft_groups = Pending
  /\ astronaut_distances = Pending
  /\ vitals = NoVitals
  /\ health_evaluation = Pending
  /\ team_demographics = <<>>
  /\ team_diversity = Pending
  /\ weather = Pending
  /\ combined = Pending
  /\ weather_summary = Pending
  /\ spacecraft_assignments = Pending
  /\ health_evaluations = Pending
  /\ displayed_astronauts = Pending
  /\ displayed_history = Pending
  /\ correlation = Pending

NextRandom ==
  \/ evaluate_health_metrics_drawing
  \/ analyze_team_diversity_drawing

SpecRandom == InitRandom /\ [][NextRandom]_vars

\* The two grouping tasks on one list, lines 1029 and 1032.
InitPaired ==
  /\ astronaut_list \in {Returned(l) : l \in PairedLists}
  /\ number_of_people_in_space = None
  /\ astronaut_list_after = Pending
  /\ enriched_astronauts = Pending
  /\ spacecraft_groups = Pending
  /\ astronaut_distances = Pending
  /\ vitals = NoVitals
  /\ health_evaluation = Pending
  /\ team_demographics = <<>>
  /\ team_diversity = Pending
  /\ weather = Pending
  /\ combined = Pending
  /\ weather_summary = Pending
  /\ spacecraft_assignments = Pending
  /\ health_evaluations = Pending
  /\ displayed_astronauts = Pending
  /\ displayed_history = Pending
  /\ correlation = Pending
  /\ random_stream = <<>>
  /\ random_position = 0

NextPaired ==
  \/ filter_astronauts_by_craft
  \/ map_spacecraft_assignments

SpecPaired == InitPaired /\ [][NextPaired]_vars

\* The two tasks that key their result by name, lines 1035 and 1041, on a
\* list and its enrichment.
InitKeyed ==
  /\ \E l \in CombinedLists :
       /\ astronaut_list = Returned(l)
       /\ astronaut_list_after = Returned(l)
       /\ enriched_astronauts = EnrichSpacecraftData(l).outcome
  /\ number_of_people_in_space = None
  /\ spacecraft_groups = Pending
  /\ astronaut_distances = Pending
  /\ vitals = NoVitals
  /\ health_evaluation = Pending
  /\ team_demographics = <<>>
  /\ team_diversity = Pending
  /\ weather = Pending
  /\ combined = Pending
  /\ weather_summary = Pending
  /\ spacecraft_assignments = Pending
  /\ health_evaluations = Pending
  /\ displayed_astronauts = Pending
  /\ displayed_history = Pending
  /\ correlation = Pending
  /\ random_stream = <<>>
  /\ random_position = 0

NextKeyed ==
  \/ calculate_mission_distance
  \/ evaluate_health_metrics

SpecKeyed == InitKeyed /\ [][NextKeyed]_vars

\* enrich_spacecraft_data followed by calculate_mission_distance, lines 1025
\* and 1041, on a raw list.
InitPipeline ==
  /\ astronaut_list \in {Returned(l) : l \in RawLists}
  /\ number_of_people_in_space = None
  /\ astronaut_list_after = Pending
  /\ enriched_astronauts = Pending
  /\ spacecraft_groups = Pending
  /\ astronaut_distances = Pending
  /\ vitals = NoVitals
  /\ health_evaluation = Pending
  /\ team_demographics = <<>>
  /\ team_diversity = Pending
  /\ weather = Pending
  /\ combined = Pending
  /\ weather_summary = Pending
  /\ spacecraft_assignments = Pending
  /\ health_evaluations = Pending
  /\ displayed_astronauts = Pending
  /\ displayed_history = Pending
  /\ correlation = Pending
  /\ random_stream = <<>>
  /\ random_position = 0

NextPipeline ==
  \/ enrich_spacecraft_data
  \/ calculate_mission_distance

SpecPipeline == InitPipeline /\ [][NextPipeline]_vars

\* The tasks that loop over the astronauts, lines 1025-1041, on one list.
InitTeam ==
  /\ astronaut_list \in {Returned(l) : l \in TeamLists}
  /\ number_of_people_in_space = None
  /\ astronaut_list_after = Pending
  /\ enriched_astronauts = Pending
  /\ spacecraft_groups = Pending
  /\ astronaut_distances = Pending
  /\ vitals = NoVitals
  /\ health_evaluation = Pending
  /\ team_demographics = <<>>
  /\ team_diversity = Pending
  /\ weather = Pending
  /\ combined = Pending
  /\ weather_summary = Pending
  /\ spacecraft_assignments = Pending
  /\ health_evaluations = Pending
  /\ displayed_astronauts = Pending
  /\ displayed_history = Pending
  /\ correlation = Pending
  /\ random_stream = <<>>
  /\ random_position = 0

NextTeam ==
  \/ enrich_spacecraft_data
  \/ filter_astronauts_by_craft
  \/ map_spacecraft_assignments
  \/ evaluate_health_metrics
  \/ analyze_team_diversity
  \/ calculate_mission_distance

SpecTeam == InitTeam /\ [][NextTeam]_vars

(***************************************************************************)
(* Claims about enrich_spacecraft_data and filter_astronauts_by_craft,     *)
(* under SpecEnrich.                                                       *)
(***************************************************************************)
EnrichReturned == enriched_astronauts.status = "returned"
EnrichRan == enriched_astronauts.status # "pending"
FilterRan == spacecraft_groups.status # "pending"
Input == astronaut_list.value
Enriched == enriched_astronauts.value

AllCarryCraft(astronauts) ==
  \A i \in 1..Len(astronauts) : "craft" \in DOMAIN astronauts[i]

CatalogKeys == {Str("ISS"), Str("Tiangong"), Str("Shenzhou")}

EnrichmentKeys ==
  {"spacecraft_model", "spacecraft_type", "operating_agencies",
   "operating_countries", "launch_year", "crew_capacity", "orbital_speed_kmh",
   "orbital_speed_mph", "orbital_velocity_ms", "altitude_km",
   "orbital_period_min", "history"}

\* The catalog field behind each enrichment key.
CatalogField ==
  [k \in EnrichmentKeys |->
     CASE k = "spacecraft_model" -> "model"
       [] k = "spacecraft_type" -> "type"
       [] k = "operating_agencies" -> "agencies"
       [] k = "operating_countries" -> "countries"
       [] OTHER -> k]

\* C1: on a list whose records all carry craft, enrich_spacecraft_data
\* returns a list of the same length whose i-th record has the name and the
\* craft of the i-th input record.
C1_LengthAndOrderPreserved ==
  (EnrichRan /\ AllCarryCraft(Input)) =>
    /\ EnrichReturned
    /\ Len(Enriched) = Len(Input)
    /\ \A i \in 1..Len(Input) :
         /\ Enriched[i]["craft"] = Input[i]["craft"]
         /\ ("name" \in DOMAIN Input[i]) <=> ("name" \in DOMAIN Enriched[i])
         /\ "name" \in DOMAIN Input[i] => Enriched[i]["name"] = Input[i]["name"]

C1_Witness ==
  /\ EnrichReturned
  /\ Len(Input) = 2
  /\ Input[1] = RawRecord(Str("A"), Str("ISS"))
  /\ Input[2] = RawRecord(Str("B"), Str("Mir"))
  /\ Enriched[1]["name"] = Str("A")
  /\ Enriched[2]["craft"] = Str("Mir")

\* C2: a record whose craft is no key of the catalog is enriched with the
\* sentinel: spacecraft_model is the raw craft, spacecraft_type "Unknown",
\* agencies and countries ["Unknown"], the seven numeric fields null and
\* the history empty.
C2_UncataloguedGetsSentinel ==
  EnrichReturned =>
    \A i \in 1..Len(Enriched) :
      Input[i]["craft"] \notin CatalogKeys =>
        /\ Enriched[i]["spacecraft_model"] = Input[i]["craft"]
        /\ Enriched[i]["spacecraft_type"] = Str("Unknown")
        /\ Enriched[i]["operating_agencies"] = List(<<Str("Unknown")>>)
        /\ Enriched[i]["operating_countries"] = List(<<Str("Unknown")>>)
        /\ \A k \in {"launch_year", "crew_capacity", "orbital_speed_kmh",
                     "orbital_speed_mph", "orbital_velocity_ms", "altitude_km",
                     "orbital_period_min"} : Enriched[i][k] = None
        /\ Enriched[i]["history"] = Dict(<<>>)

C2_Witness ==
  /\ EnrichReturned
  /\ \E i \in 1..Len(Enriched) :
       /\ Input[i]["craft"] = Str("Mir")
       /\ Enriched[i]["spacecraft_model"] = Str("Mir")
       /\ Enriched[i]["launch_year"] = None

\* C3: a record whose craft is exactly a catalog key gets every field of
\* that catalog entry (ISS: model "International Space Station", crew
\* capacity 7); a craft that differs from a key in case or spacing gets the
\* sentinel.
C3_ExactMatchGetsCatalogEntry ==
  EnrichReturned =>
    \A i \in 1..Len(Enriched) :
      LET craft == Input[i]["craft"] IN
        /\ craft \in CatalogKeys =>
             /\ DOMAIN Enriched[i] = DOMAIN Input[i] \cup EnrichmentKeys
             /\ \A k \in EnrichmentKeys :
                  Enriched[i][k] = spacecraft_info[craft][CatalogField[k]]
        /\ craft = Str("ISS") =>
             /\ Enriched[i]["spacecraft_model"] = Str("International Space Station")
             /\ Enriched[i]["crew_capacity"] = PyInt(7)
        /\ craft = Str("Tiangong") =>
             Enriched[i]["spacecraft_model"] = Str("Tiangong Space Station (CSS)")
        /\ craft = Str("Shenzhou") =>
             Enriched[i]["spacecraft_model"] = Str("Shenzhou Spacecraft")
        /\ craft \in {Str("iss"), Str("ISS ")} =>
             /\ Enriched[i]["spacecraft_model"] = craft
             /\ Enriched[i]["spacecraft_type"] = Str("Unknown")

C3_Witness ==
  /\ EnrichReturned
  /\ Len(Input) = 2
  /\ Input[1]["craft"] = Str("ISS")
  /\ Enriched[1]["crew_capacity"] = PyInt(7)
  /\ Input[2]["craft"] = Str("iss")
  /\ Enriched[2]["spacecraft_type"] = Str("Unknown")

\* C4 as stated: every returned record has a non-null spacecraft_model and
\* a non-null spacecraft_type, a record whose craft is null included.
C4_Original_ModelAndTypeNeverNull ==
  EnrichReturned =>
    \A i \in 1..Len(Enriched) :
      /\ Enriched[i]["spacecraft_model"] # None
      /\ Enriched[i]["spacecraft_type"] # None

\* C4 amended: every returned record has a non-null spacecraft_type, and
\* its spacecraft_model is null exactly when its craft is null.
C4_TypeNeverNull_ModelNullOnlyForNullCraft ==
  EnrichReturned =>
    \A i \in 1..Len(Enriched) :
      /\ Enriched[i]["spacecraft_type"] # None
      /\ (Enriched[i]["spacecraft_model"] = None) <=> (Input[i]["craft"] = None)

C4_Witness ==
  /\ EnrichReturned
  /\ \E i \in 1..Len(Enriched) :
       /\ Input[i]["craft"] = None
       /\ Enriched[i]["spacecraft_model"] = None
       /\ Enriched[i]["spacecraft_type"] = Str("Unknown")

\* C5: after enrich_spacecraft_data the input list and its records are what
\* they were before the call, and no input record holds an enrichment key.
C5_InputUnchanged ==
  EnrichRan =>
    /\ astronaut_list_after.value = Input
    /\ \A i \in 1..Len(Input) :
         DOMAIN astronaut_list_after.value[i] \cap EnrichmentKeys = {}

C5_Witness ==
  /\ EnrichReturned
  /\ Len(Input) = 2
  /\ astronaut_list_after.value = Input
  /\ \A i \in 1..2 : EnrichmentKeys \subseteq DOMAIN Enriched[i]

\* C6 as stated: when a record lacks craft (or, for the task that reads it,
\* name) the task fails, returns nothing, and its error identifies both the
\* missing field and the offending record.
MissingField(astronauts, fields) ==
  \E i \in 1..Len(astronauts) : \E f \in fields : f \notin DOMAIN astronauts[i]

\* The first record of the list that lacks one of the fields.
FirstOffender(astronauts, fields) ==
  CHOOSE i \in 1..Len(astronauts) :
    /\ \E f \in fields : f \notin DOMAIN astronauts[i]
    /\ \A j \in 1..(i - 1) : \A f \in fields : f \in DOMAIN astronauts[j]

ErrorNamesField(exc, record, fields) ==
  \E j \in DOMAIN exc.args : \E f \in fields :
    f \notin DOMAIN record /\ exc.args[j] = Str(f)

ErrorNamesRecord(exc, astronauts, i) ==
  \E j \in DOMAIN exc.args :
    \/ exc.args[j] = Dict(astronauts[i])
    \/ exc.args[j] = PyInt(i - 1)
    \/ "name" \in DOMAIN astronauts[i] /\ exc.args[j] = astronauts[i]["name"]

FailsFastDescriptively(outcome, astronauts, fields) ==
  MissingField(astronauts, fields) =>
    LET i == FirstOffender(astronauts, fields) IN
      /\ outcome.status = "raised"
      /\ outcome.value = <<>>
      /\ ErrorNamesField(outcome.exc, astronauts[i], fields)
      /\ ErrorNamesRecord(outcome.exc, astronauts, i)

C6_Original_MissingFieldErrorNamesRecordAndField ==
  /\ EnrichRan => FailsFastDescriptively(enriched_astronauts, Input, {"craft"})
  /\ FilterRan => FailsFastDescriptively(spacecraft_groups, Input, {"craft", "name"})

\* What the code does there: it raises KeyError whose only argument is the
\* missing key, and returns nothing.
C6_Observed_KeyErrorNamesFieldOnly ==
  /\ (EnrichRan /\ MissingField(Input, {"craft"})) =>
       /\ enriched_astronauts = Raised(KeyError("craft"))
  /\ (FilterRan /\ MissingField(Input, {"craft", "name"})) =>
       LET r == Input[FirstOffender(Input, {"craft", "name"})] IN
         spacecraft_groups =
           Raised(KeyError(IF "craft" \notin DOMAIN r THEN "craft" ELSE "name"))

(***************************************************************************)
(* Claims about calculate_mission_distance, under SpecDistance.            *)
(***************************************************************************)
DistanceReturned == astronaut_distances.status = "returned"
Distances == astronaut_distances.value

\* The record an entry of astronaut_distances was computed from: the last
\* record of the input that has the entry's name.
SourceOf(name) ==
  LET astronauts == enriched_astronauts.value
      last == CHOOSE i \in 1..Len(astronauts) :
                /\ astronauts[i]["name"] = name
                /\ \A j \in (i + 1)..Len(astronauts) : astronauts[j]["name"] # name
  IN astronauts[last]

DistanceFields ==
  {"total_distance_km", "total_distance_miles", "orbits_completed",
   "distance_per_day_km"}

C7_HoldsForNonZeroSpeed ==
  DistanceReturned =>
    \A e \in 1..Len(Distances) :
      LET entry == Distances[e].value
          speed == DictGet(SourceOf(Distances[e].key), "orbital_speed_kmh")
      IN speed # PyInt(0) =>
           /\ (\A f \in DistanceFields : entry[f] = None) <=> (speed = None)
           /\ (\E f \in DistanceFields : entry[f] = None) <=> (speed = None)
           /\ speed # None =>
                /\ entry.mission_days = PyInt(180)
                /\ entry.total_distance_km = PyMul(speed, PyInt(180 * 24))
                /\ entry.distance_per_day_km = PyMul(speed, PyInt(24))

HealthReturned == health_evaluation.status = "returned"

\* What one vital adds to risk_score: the score of the evaluated vitals less
\* the score the same vitals get with that vital at a normal value.
OxygenContribution ==
  health_evaluation.value.risk_score
    - EvaluateVitals([vitals EXCEPT !.oxygen_saturation = 98]).risk_score

BloodPressureContribution ==
  health_evaluation.value.risk_score
    - EvaluateVitals([vitals EXCEPT !.systolic_bp = 120, !.diastolic_bp = 80]).risk_score

\* C9 as stated: oxygen saturation adds 0 points at 95 or more, 1 point
\* from 90 to 94, 3 points below 90.
C9_Original_LowOxygenAddsOne ==
  HealthReturned =>
    OxygenContribution =
      (IF vitals.oxygen_saturation >= 95 THEN 0
       ELSE IF vitals.oxygen_saturation >= 90 THEN 1 ELSE 3)

\* C9 amended: oxygen saturation adds 0 points at 95 or more, 2 points
\* from 90 to 94, 3 points below 90.
C9_LowOxygenAddsTwo ==
  HealthReturned =>
    OxygenContribution =
      (IF vitals.oxygen_saturation >= 95 THEN 0
       ELSE IF vitals.oxygen_saturation >= 90 THEN 2 ELSE 3)

C9_Witness ==
  /\ HealthReturned
  /\ vitals.oxygen_saturation = 92
  /\ vitals.heart_rate = 60
  /\ vitals.systolic_bp = 120
  /\ vitals.diastolic_bp = 80
  /\ vitals.body_temp = 370
  /\ health_evaluation.value.risk_score = 2
  /\ health_evaluation.value.risk_factors = <<"Low oxygen saturation">>

\* C10 as stated: blood pressure adds 0 points for a systolic of 90 to 130,
\* 1 point for 131 to 140 and 2 points below 90 or above 140, whatever the
\* diastolic pressure is.
C10_Original_SystolicAloneDecides ==
  HealthReturned =>
    BloodPressureContribution =
      (IF vitals.systolic_bp < 90 \/ vitals.systolic_bp > 140 THEN 2
       ELSE IF vitals.systolic_bp >= 131 THEN 1 ELSE 0)

\* C10 amended: blood pressure adds 2 points for a systolic below 90 or
\* above 140; otherwise 1 point when the systolic is above 130 or the
\* diastolic is above 85; otherwise 0 points.
C10_DiastolicAbove85AddsOne ==
  HealthReturned =>
    BloodPressureContribution =
      (IF vitals.systolic_bp < 90 \/ vitals.systolic_bp > 140 THEN 2
       ELSE IF vitals.systolic_bp >= 131 \/ vitals.diastolic_bp >= 86 THEN 1 ELSE 0)

C10_Witness ==
  /\ HealthReturned
  /\ vitals.systolic_bp = 120
  /\ vitals.diastolic_bp = 86
  /\ vitals.oxygen_saturation = 100
  /\ vitals.heart_rate = 60
  /\ vitals.body_temp = 365
  /\ health_evaluation.value.risk_score = 1
  /\ health_evaluation.value.risk_factors = <<"Slightly elevated blood pressure">>

\* C11: the health status is decided by the risk score alone: "Normal" at
\* 0, "Monitor" at 1 or 2, "At Risk" at 3 or 4, "Critical" from 5 on,
\* whatever vitals were drawn.
C11_StatusIsBandOfRiskScore ==
  HealthReturned =>
    LET score == health_evaluation.value.risk_score
        status == health_evaluation.value.health_status
    IN /\ score = 0 <=> status = "Normal"
       /\ score \in {1, 2} <=> status = "Monitor"
       /\ score \in {3, 4} <=> status = "At Risk"
       /\ score >= 5 <=> status = "Critical"

\* Low oxygen and a slightly high temperature: 2 + 1 points, "At Risk".
C11_Witness ==
  /\ HealthReturned
  /\ vitals.oxygen_saturation = 94
  /\ vitals.heart_rate = 80
  /\ vitals.systolic_bp = 120
  /\ vitals.diastolic_bp = 80
  /\ vitals.body_temp = 376
  /\ health_evaluation.value.risk_score = 3
  /\ health_evaluation.value.health_status = "At Risk"

\* Values a vital is moved to in C12, inside and outside the ranges drawn.
OxygenLevels == 85..100
HeartRates == {40, 49, 50, 55, 59, 60, 80, 100, 101, 115, 120, 121, 130}
SystolicPressures == {80, 89, 90, 100, 120, 130, 131, 140, 141, 145, 160}
BodyTemperatures == {355, 359, 360, 361, 364, 365, 370, 375, 376, 380, 381, 382, 390}

\* to is further than from outside the band lo..hi, on the side of the band
\* on which from already is (a value inside the band is on both sides).
FurtherFromBand(from, to, lo, hi) ==
  \/ to < from /\ from <= hi
  \/ to > from /\ from >= lo

ScoreWith(v) == EvaluateVitals(v).risk_score

\* C12: with the other vitals as drawn, a lower oxygen saturation, a heart
\* rate further below 60 or above 100, a systolic pressure further below 90
\* or above 130, or a temperature further below 36.5 or above 37.5 never
\* gives a lower risk score.
C12_ScoreMonotonicInDeviation ==
  HealthReturned =>
    LET score == health_evaluation.value.risk_score IN
      /\ \A o \in OxygenLevels :
           o < vitals.oxygen_saturation =>
             ScoreWith([vitals EXCEPT !.oxygen_saturation = o]) >= score
      /\ \A h \in HeartRates :
           FurtherFromBand(vitals.heart_rate, h, 60, 100) =>
             ScoreWith([vitals EXCEPT !.heart_rate = h]) >= score
      /\ \A s \in SystolicPressures :
           FurtherFromBand(vitals.systolic_bp, s, 90, 130) =>
             ScoreWith([vitals EXCEPT !.systolic_bp = s]) >= score
      /\ \A t \in BodyTemperatures :
           FurtherFromBand(vitals.body_temp, t, 365, 375) =>
             ScoreWith([vitals EXCEPT !.body_temp = t]) >= score

\* A heart rate of 101 scores 1 point; moved to 130 it scores 3.
C12_Witness ==
  /\ HealthReturned
  /\ vitals.oxygen_saturation = 98
  /\ vitals.heart_rate = 101
  /\ vitals.systolic_bp = 120
  /\ vitals.diastolic_bp = 80
  /\ vitals.body_temp = 370
  /\ health_evaluation.value.risk_score = 1
  /\ ScoreWith([vitals EXCEPT !.heart_rate = 130]) = 3

(***************************************************************************)
(* Claims about the crew diversity scores, under SpecDiversity.            *)
(***************************************************************************)
DiversityReturned == team_diversity.status = "returned"
DiversityRan == team_diversity.status # "pending"

\* The crafts of the analysed records, and the positions of a craft's crew.
CraftsAnalysed ==
  {team_demographics[i]["craft"] : i \in 1..Len(team_demographics)}
CrewOf(craft) ==
  {i \in 1..Len(team_demographics) : team_demographics[i]["craft"] = craft}

\* The number of ordered pairs of members of a crew that differ in a field:
\* N * N less the sum of the squared category counts.
DifferingPairs(craft, field) ==
  Cardinality({p \in CrewOf(craft) \X CrewOf(craft) :
                 team_demographics[p[1]][field] # team_demographics[p[2]][field]})

CategoriesIn(craft, field) ==
  {team_demographics[i][field] : i \in CrewOf(craft)}

\* score is n / d to three decimals.
ToThreeDecimals(score, n, d) ==
  LET diff == score[2] * d - n * score[3]
  IN 2000 * (IF diff < 0 THEN -diff ELSE diff) <= score[3] * d

DiversityDimensions ==
  { [field |-> "gender", score |-> "gender_diversity_score"],
    [field |-> "nationality", score |-> "nationality_diversity_score"],
    [field |-> "experience_level", score |-> "experience_diversity_score"] }

\* C13: for every crew and each of gender, nationality and experience the
\* score is 1 - sum((count_i / N)^2) to three decimals, lies between 0 and
\* 1, and is exactly 0 when the whole crew is in one category, a crew of
\* one included; the analysis of a non-empty list raises nothing.
C13_SimpsonIndexInUnitInterval ==
  DiversityRan =>
    /\ team_demographics # <<>> => DiversityReturned
    /\ DiversityReturned =>
         \A craft \in CraftsAnalysed : \A dim \in DiversityDimensions :
           LET N == Cardinality(CrewOf(craft))
               score == OdGet(team_diversity.value, craft)[dim.score]
           IN /\ ToThreeDecimals(score, DifferingPairs(craft, dim.field), N * N)
              /\ score[2] >= 0 /\ score[2] <= score[3]
              /\ Cardinality(CategoriesIn(craft, dim.field)) = 1 => score = PyInt(0)
              /\ N = 1 => score = PyInt(0)

\* A crew of two of different genders beside a crew of one.
C13_Witness ==
  /\ DiversityReturned
  /\ Len(team_demographics) = 3
  /\ Cardinality(CrewOf(Str("Tiangong"))) = 1
  /\ OdGet(team_diversity.value, Str("Tiangong")).gender_diversity_score = PyInt(0)
  /\ OdGet(team_diversity.value, Str("Tiangong")).nationality_diversity_score = PyInt(0)
  /\ OdGet(team_diversity.value, Str("Tiangong")).experience_diversity_score = PyInt(0)
  /\ team_demographics[1]["gender"] = Str("Male")
  /\ team_demographics[3]["gender"] = Str("Female")
  /\ OdGet(team_diversity.value, Str("ISS")).gender_diversity_score = Num(1, 2)
  /\ OdGet(team_diversity.value, Str("ISS")).nationality_diversity_score = PyInt(0)

\* C14: the overall score is the mean of the three indices (to three
\* decimals), and the rating is "Highly Diverse" for a mean of at least
\* 0.70, "Moderately Diverse" from 0.50, "Low Diversity" from 0.30,
\* "Homogeneous" below.
C14_OverallIsMeanAndRatingByThreshold ==
  DiversityReturned =>
    \A craft \in CraftsAnalysed :
      LET N == Cardinality(CrewOf(craft))
          K == DifferingPairs(craft, "gender") + DifferingPairs(craft, "nationality")
                 + DifferingPairs(craft, "experience_level")
          report == OdGet(team_diversity.value, craft)
      IN /\ ToThreeDecimals(report.overall_diversity_score, K, 3 * N * N)
         /\ report.diversity_rating =
              (IF 10 * K >= 7 * 3 * N * N THEN "Highly Diverse"
               ELSE IF 10 * K >= 5 * 3 * N * N THEN "Moderately Diverse"
               ELSE IF 10 * K >= 3 * 3 * N * N THEN "Low Diversity"
               ELSE "Homogeneous")

\* Four members of three genders, four nationalities and four experience
\* levels: (0.625 + 0.75 + 0.75) / 3 = 0.708.
C14_Witness ==
  /\ DiversityReturned
  /\ Cardinality(CrewOf(Str("ISS"))) = 4
  /\ Cardinality(CategoriesIn(Str("ISS"), "gender")) = 3
  /\ Cardinality(CategoriesIn(Str("ISS"), "nationality")) = 4
  /\ Cardinality(CategoriesIn(Str("ISS"), "experience_level")) = 4
  /\ OdGet(team_diversity.value, Str("ISS")).overall_diversity_score = Num(177, 250)
  /\ OdGet(team_diversity.value, Str("ISS")).diversity_rating = "Highly Diverse"

(***************************************************************************)
(* Claims about the grouping by craft, under SpecGrouping.                 *)
(***************************************************************************)
FilterReturned == spacecraft_groups.status = "returned"

\* The positions of the input records on a craft, and the first of them.
PositionsOn(craft) == {i \in 1..Len(Input) : Input[i]["craft"] = craft}
FirstOn(craft) == CHOOSE i \in PositionsOn(craft) : \A j \in PositionsOn(craft) : i <= j

\* The position of the n-th input record on a craft.
NthOn(craft, n) ==
  CHOOSE i \in PositionsOn(craft) :
    Cardinality({j \in PositionsOn(craft) : j <= i}) = n

\* C15: the mapping returned by filter_astronauts_by_craft has the distinct
\* crafts of the input as its keys, in the order of their first appearance,
\* and under each craft the names of its records in input order.
C15_GroupsInFirstSeenOrder ==
  FilterRan =>
    /\ FilterReturned
    /\ LET groups == spacecraft_groups.value
           keys == OdKeys(groups)
       IN /\ {keys[a] : a \in 1..Len(keys)} = {Input[i]["craft"] : i \in 1..Len(Input)}
          /\ \A a, b \in 1..Len(keys) :
               a < b => FirstOn(keys[a]) < FirstOn(keys[b])
          /\ \A a \in 1..Len(keys) :
               LET names == groups[a].value IN
                 /\ Len(names) = Cardinality(PositionsOn(keys[a]))
                 /\ \A n \in 1..Len(names) :
                      names[n] = Input[NthOn(keys[a], n)]["name"]

\* A and C on the ISS with B on Shenzhou between them.
C15_Witness ==
  /\ FilterReturned
  /\ Input = <<RawRecord(Str("A"), Str("ISS")), RawRecord(Str("B"), Str("Shenzhou")),
               RawRecord(Str("C"), Str("ISS"))>>
  /\ spacecraft_groups.value =
       <<[key |-> Str("ISS"), value |-> <<Str("A"), Str("C")>>],
         [key |-> Str("Shenzhou"), value |-> <<Str("B")>>]>>

(***************************************************************************)
(* Claims about combine_data, under SpecCombine.                           *)
(***************************************************************************)
CombineRan == combined.status # "pending"
CombineReturned == combined.status = "returned"

\* C16: combine_data returns a frame of exactly one row, whose
\* num_astronauts is the length of the enriched list, whose num_spacecraft
\* is the number of distinct craft values in it, and whose timestamp,
\* temperature, wind_speed and cloud_cover are those of the weather
\* observation.
C16_OneRowOfCountsAndWeather ==
  CombineRan =>
    /\ CombineReturned
    /\ LET frame == combined.value
           column == frame.columns
       IN /\ frame.index = <<0>>
          /\ DOMAIN column = {"timestamp", "num_astronauts", "num_spacecraft",
                              "temperature", "wind_speed", "cloud_cover"}
          /\ \A c \in DOMAIN column : Len(column[c]) = 1
          /\ column["num_astronauts"][1] = PyInt(Len(Enriched))
          /\ column["num_spacecraft"][1] =
               PyInt(Cardinality({Enriched[i]["craft"] : i \in 1..Len(Enriched)}))
          /\ \A c \in {"timestamp", "temperature", "wind_speed", "cloud_cover"} :
               column[c][1] = weather.value[c]

\* Three astronauts on two crafts, at -3.5 degrees.
C16_Witness ==
  /\ CombineReturned
  /\ Len(Enriched) = 3
  /\ Enriched[1]["craft"] = Str("ISS")
  /\ Enriched[2]["craft"] = Str("Mir")
  /\ Enriched[3]["craft"] = Str("ISS")
  /\ weather.value["temperature"] = Num(-35, 10)
  /\ combined.value.columns["num_astronauts"] = <<PyInt(3)>>
  /\ combined.value.columns["num_spacecraft"] = <<PyInt(2)>>
  /\ combined.value.columns["temperature"] = <<Num(-35, 10)>>
  /\ combined.value.columns["timestamp"] = <<Str("2024-05-01T12:00")>>

(***************************************************************************)
(* Claims about summarize_weather_conditions, under SpecSummary.           *)
(***************************************************************************)
SummaryRan == weather_summary.status # "pending"
SummaryReturned == weather_summary.status = "returned"

\* The codes of the table of lines 929-954.
WmoCodes ==
  {0, 1, 2, 3, 45, 48, 51, 53, 55, 61, 63, 65, 71, 73, 75, 77, 80, 81, 82, 85,
   86, 95, 96, 99}

\* The code the summary is made for: that of the dict, 0 when it has none.
CodeSummarized ==
  IF "weather_code" \in DOMAIN weather.value
  THEN weather.value["weather_code"] ELSE PyInt(0)

\* C17: the decoding of the weather code raises nothing; a code of the
\* table gets its description (0 "Clear sky"), every other code c gets
\* "Unknown (code: c)".
C17_WeatherCodeDecodingTotal ==
  SummaryRan =>
    /\ SummaryReturned
    /\ LET code == CodeSummarized
           description == weather_summary.value.weather_description
       IN /\ weather_summary.value.weather_code = code
          /\ code = PyInt(0) => description = Str("Clear sky")
          /\ code = PyInt(3) => description = Str("Overcast")
          /\ code = PyInt(99) => description = Str("Thunderstorm with heavy hail")
          /\ code # None /\ code[2] \in WmoCodes =>
               /\ description = Str(weather_code_descriptions[code[2]])
               /\ \A other \in WmoCodes \ {code[2]} :
                    description # Str(weather_code_descriptions[other])
          /\ code # None /\ code[2] \notin WmoCodes =>
               description = Str("Unknown (code: " \o ToString(code[2]) \o ")")
          /\ code = None => description = Str("Unknown (code: None)")

\* Code 999 is not in the table.
C17_Witness ==
  /\ SummaryReturned
  /\ CodeSummarized = PyInt(999)
  /\ weather_summary.value.weather_description = Str("Unknown (code: 999)")
  /\ weather_summary.value.weather_code = PyInt(999)

(***************************************************************************)
(* Claims about the order of the tasks, under SpecDag.  A task starts in   *)
(* the step in which its outcome stops being pending.                      *)
(***************************************************************************)
Starts(before, after) == before.status = "pending" /\ after.status # "pending"
Completed(outcome) == outcome.status = "returned"

StartsEnrich == Starts(enriched_astronauts, enriched_astronauts')
StartsFilter == Starts(spacecraft_groups, spacecraft_groups')
StartsMap == Starts(spacecraft_assignments, spacecraft_assignments')
StartsHealth == Starts(health_evaluations, health_evaluations')
StartsDiversity == Starts(team_diversity, team_diversity')
StartsDistance == Starts(astronaut_distances, astronaut_distances')
StartsCombine == Starts(combined, combined')
StartsCorrelation == Starts(correlation, correlation')

\* C18 as stated: mission distance, health evaluation, diversity analysis
\* and the two groupings start only once enrich_spacecraft_data has
\* completed.
C18_Original_AllStartAfterEnrichment ==
  [][(StartsDistance \/ StartsHealth \/ StartsDiversity \/ StartsFilter \/ StartsMap)
       => Completed(enriched_astronauts)]_vars

\* C18 amended: calculate_mission_distance and combine_data start only once
\* enrich_spacecraft_data has completed; the health evaluation, the
\* diversity analysis and the two groupings start once get_astronauts has
\* completed, whether or not enrichment has, and their outcome is that of
\* the raw list.
C18_OnlyDistanceAndStagingFollowEnrichment ==
  [][/\ StartsDistance \/ StartsCombine => Completed(enriched_astronauts)
     /\ StartsHealth \/ StartsDiversity \/ StartsFilter \/ StartsMap
          => Completed(astronaut_list)
     /\ StartsDistance =>
          astronaut_distances' = CalculateMissionDistance(Enriched)
     /\ StartsFilter => spacecraft_groups' = FilterAstronautsByCraft(Input)
     /\ StartsMap => spacecraft_assignments' = MapSpacecraftAssignments(Input)
     /\ StartsHealth =>
          \E drawn \in [1..Len(Input) -> SampledVitals] :
            health_evaluations' = EvaluateHealthMetrics(Input, drawn)
     /\ StartsDiversity =>
          /\ Len(team_demographics') = Len(Input)
          /\ \A i \in 1..Len(Input) :
               \A k \in DOMAIN Input[i] : team_demographics'[i][k] = Input[i][k]
    ]_vars

\* Health, diversity and both groupings are done and enrichment has not
\* started.
C18_Witness ==
  /\ Completed(astronaut_list)
  /\ Len(Input) = 1
  /\ enriched_astronauts.status = "pending"
  /\ Completed(health_evaluations)
  /\ Completed(team_diversity)
  /\ Completed(spacecraft_groups)
  /\ Completed(spacecraft_assignments)
  /\ astronaut_distances.status = "pending"

\* C20: combine_data starts only once enrich_spacecraft_data and
\* get_weather_data have both completed, analyze_correlation only once
\* combine_data has, enrich_spacecraft_data only once get_astronauts has;
\* get_weather_data can start whenever it has not run, whatever the state
\* of get_astronauts and of the enrichment.
C20_StagingWaitsForEnrichmentAndWeather ==
  /\ [][/\ StartsCombine => Completed(enriched_astronauts) /\ Completed(weather)
        /\ StartsCorrelation => Completed(combined)
        /\ StartsEnrich => Completed(astronaut_list)
       ]_vars
  /\ [](weather.status = "pending" => ENABLED get_weather_data)

\* The whole chain has run for one astronaut.
C20_Witness ==
  /\ Completed(astronaut_list)
  /\ Len(Input) = 1
  /\ Completed(enriched_astronauts)
  /\ Completed(weather)
  /\ Completed(combined)
  /\ Completed(correlation)
  /\ combined.value.columns["num_astronauts"] = <<PyInt(1)>>

(***************************************************************************)
(* Claims about the random draws, under SpecRandom.                        *)
(***************************************************************************)
\* What an invocation returns when the generator it draws from is its own,
\* seeded like random_stream: its draws start at the head of the stream.
HealthOfOwnGenerator ==
  EvaluateHealthMetrics(Input,
    [i \in 1..Len(Input) |-> VitalsDrawn(random_stream, 0, i)])

DiversityOfOwnGenerator ==
  AnalyzeTeamDiversity(
    [i \in 1..Len(Input) |->
       WithDemographics(Input[i], DemographicsDrawn(random_stream, 0, i))])

\* C19 as stated: the result of a simulation is fixed by its input and the
\* seed, whatever other invocations have drawn random numbers before it.
C19_Original_ResultFixedByInputAndSeed ==
  /\ health_evaluations.status # "pending" =>
       health_evaluations = HealthOfOwnGenerator
  /\ team_diversity.status # "pending" =>
       team_diversity = DiversityOfOwnGenerator

(***************************************************************************)
(* Claims about the two grouping tasks, under SpecPaired.                  *)
(***************************************************************************)
MapRan == spacecraft_assignments.status # "pending"
MapReturned == spacecraft_assignments.status = "returned"

\* The number of names in the groups of a mapping, from its i-th key on.
RECURSIVE NamesFrom(_, _)
NamesFrom(groups, i) ==
  IF i > Len(groups) THEN 0 ELSE Len(groups[i].value) + NamesFrom(groups, i + 1)

HasBothFields(astronauts) ==
  \A i \in 1..Len(astronauts) : {"name", "craft"} \subseteq DOMAIN astronauts[i]

\* C21: on every list filter_astronauts_by_craft and
\* map_spacecraft_assignments end alike: they return the same mapping (same
\* keys in the same order, same lists of names) when every record has its
\* name and its craft, and raise the same error otherwise; and the sizes of
\* the groups returned sum to the length of the input, names repeating or not.
C21_FilterAndMapAgree ==
  /\ (FilterRan /\ MapRan) => spacecraft_groups = spacecraft_assignments
  /\ FilterRan => (FilterReturned <=> HasBothFields(Input))
  /\ MapRan => (MapReturned <=> HasBothFields(Input))
  /\ FilterReturned => NamesFrom(spacecraft_groups.value, 1) = Len(Input)
  /\ MapReturned => NamesFrom(spacecraft_assignments.value, 1) = Len(Input)

\* A twice on the ISS and once on Shenzhou: three names in two groups, the
\* same from both tasks.
C21_Witness ==
  /\ FilterReturned
  /\ MapReturned
  /\ Input = <<RawRecord(Str("A"), Str("ISS")), RawRecord(Str("A"), Str("Shenzhou")),
               RawRecord(Str("A"), Str("ISS"))>>
  /\ spacecraft_assignments.value =
       <<[key |-> Str("ISS"), value |-> <<Str("A"), Str("A")>>],
         [key |-> Str("Shenzhou"), value |-> <<Str("A")>>]>>

(***************************************************************************)
(* Claims about the results keyed by name, under SpecKeyed.                *)
(***************************************************************************)
HealthsReturned == health_evaluations.status = "returned"

NamesOf(astronauts) == {astronauts[i]["name"] : i \in 1..Len(astronauts)}
NameRepeats(astronauts) ==
  \E i, j \in 1..Len(astronauts) : i < j /\ astronauts[i]["name"] = astronauts[j]["name"]

\* The last record of a list that has the given name.
LastNamed(astronauts, name) ==
  astronauts[CHOOSE i \in 1..Len(astronauts) :
               /\ astronauts[i]["name"] = name
               /\ \A j \in (i + 1)..Len(astronauts) : astronauts[j]["name"] # name]

\* A mapping has one entry per distinct name of the list, each with the
\* spacecraft of the last record of that name, and fewer entries than the
\* list has records when a name repeats.
KeyedByName(mapping, astronauts) ==
  LET keys == OdKeys(mapping) IN
    /\ \A a, b \in 1..Len(keys) : a # b => keys[a] # keys[b]
    /\ {keys[a] : a \in 1..Len(keys)} = NamesOf(astronauts)
    /\ \A a \in 1..Len(keys) :
         mapping[a].value.spacecraft = LastNamed(astronauts, keys[a])["craft"]
    /\ NameRepeats(astronauts) => Len(mapping) < Len(astronauts)
    /\ ~NameRepeats(astronauts) => Len(mapping) = Len(astronauts)

\* C22: calculate_mission_distance and evaluate_health_metrics return a
\* mapping keyed by name: one entry per distinct name, fewer entries than
\* records when two records share a name, and the entry of a shared name
\* carries the spacecraft of the last record of that name.
C22_OneEntryPerNameLastWins ==
  /\ astronaut_distances.status # "pending" =>
       DistanceReturned /\ KeyedByName(Distances, Enriched)
  /\ health_evaluations.status # "pending" =>
       HealthsReturned /\ KeyedByName(health_evaluations.value, Input)

\* A on the ISS, B on the ISS, A again on Mir: two entries, A's on Mir.
C22_Witness ==
  /\ DistanceReturned
  /\ HealthsReturned
  /\ Input = <<RawRecord(Str("A"), Str("ISS")), RawRecord(Str("B"), Str("ISS")),
               RawRecord(Str("A"), Str("Mir"))>>
  /\ OdKeys(Distances) = <<Str("A"), Str("B")>>
  /\ OdGet(Distances, Str("A")).spacecraft = Str("Mir")
  /\ OdGet(Distances, Str("A")).total_distance_km = None
  /\ OdKeys(health_evaluations.value) = <<Str("A"), Str("B")>>
  /\ OdGet(health_evaluations.value, Str("A")).spacecraft = Str("Mir")

(***************************************************************************)
(* Claims about enrichment followed by mission distance, under             *)
(* SpecPipeline.                                                           *)
(***************************************************************************)
Catalogued(craft) == craft \in DOMAIN spacecraft_info

OrbitalFields == DistanceFields \cup {"orbital_speed_kmh"}

\* C23: of a raw list enriched and then handed to calculate_mission_distance,
\* every entry returned is that of the last raw record of its name; on a
\* craft of the catalog all its distance fields are non-null and
\* orbits_completed is above zero, on any other craft they are all null;
\* orbits_completed is never 0, every craft of the catalog having a speed and
\* a period.
C23_CataloguedAllKnownOtherwiseAllNull ==
  /\ \A craft \in DOMAIN spacecraft_info :
       /\ Truthy(spacecraft_info[craft].orbital_speed_kmh)
       /\ Truthy(spacecraft_info[craft].orbital_period_min)
  /\ DistanceReturned =>
       /\ {Distances[e].key : e \in 1..Len(Distances)} = NamesOf(Input)
       /\ \A e \in 1..Len(Distances) :
            LET entry == Distances[e].value
                craft == LastNamed(Input, Distances[e].key)["craft"]
            IN /\ entry.spacecraft = craft
               /\ Catalogued(craft) =>
                    /\ \A f \in OrbitalFields : entry[f] # None
                    /\ IsNum(entry.orbits_completed)
                    /\ entry.orbits_completed[2] > 0
               /\ ~Catalogued(craft) => \A f \in OrbitalFields : entry[f] = None
               /\ entry.orbits_completed # PyInt(0)

\* A on the ISS and B on Mir: 180 days of orbits of 92.68 minutes for A,
\* nothing known for B.
C23_Witness ==
  /\ DistanceReturned
  /\ Input = <<RawRecord(Str("A"), Str("ISS")), RawRecord(Str("B"), Str("Mir"))>>
  /\ OdGet(Distances, Str("A")).orbits_completed = Rat(6480000, 2317)
  /\ OdGet(Distances, Str("A")).total_distance_km = PyInt(119232000)
  /\ OdGet(Distances, Str("B")).orbits_completed = None
  /\ OdGet(Distances, Str("B")).total_distance_km = None

(***************************************************************************)
(* Claims about the empty list, under SpecTeam.                            *)
(***************************************************************************)
\* The sum of the crew sizes of the reports, from the i-th report on.
RECURSIVE CrewSizesFrom(_, _)
CrewSizesFrom(analysis, i) ==
  IF i > Len(analysis) THEN 0
  ELSE analysis[i].value.crew_size[2] + CrewSizesFrom(analysis, i + 1)

DivisionByZero ==
  Raised([type |-> "ZeroDivisionError", args |-> <<Str("division by zero")>>])

\* C24: on a non-empty list analyze_team_diversity returns one report per
\* distinct craft, each with the number of the craft's records as crew_size,
\* so that the crew sizes sum to the number of records; on the empty list it
\* raises ZeroDivisionError, while enrich_spacecraft_data,
\* filter_astronauts_by_craft, map_spacecraft_assignments,
\* calculate_mission_distance and evaluate_health_metrics return an empty
\* result.
C24_DiversityFailsOnEmptyListOnly ==
  /\ (DiversityRan /\ Input # <<>>) =>
       /\ DiversityReturned
       /\ LET analysis == team_diversity.value
              keys == OdKeys(analysis)
          IN /\ \A a, b \in 1..Len(keys) : a # b => keys[a] # keys[b]
             /\ {keys[a] : a \in 1..Len(keys)} =
                  {Input[i]["craft"] : i \in 1..Len(Input)}
             /\ \A a \in 1..Len(keys) :
                  analysis[a].value.crew_size = PyInt(Cardinality(PositionsOn(keys[a])))
             /\ CrewSizesFrom(analysis, 1) = Len(Input)
  /\ (DiversityRan /\ Input = <<>>) => team_diversity = DivisionByZero
  /\ Input = <<>> =>
       /\ EnrichRan => enriched_astronauts = Returned(<<>>)
       /\ FilterRan => spacecraft_groups = Returned(<<>>)
       /\ MapRan => spacecraft_assignments = Returned(<<>>)
       /\ astronaut_distances.status # "pending" => astronaut_distances = Returned(<<>>)
       /\ health_evaluations.status # "pending" => health_evaluations = Returned(<<>>)

\* Every task has run on the empty list: five empty results and one
\* division by zero.
C24_Witness ==
  /\ Input = <<>>
  /\ team_diversity = DivisionByZero
  /\ enriched_astronauts = Returned(<<>>)
  /\ spacecraft_groups = Returned(<<>>)
  /\ spacecraft_assignments = Returned(<<>>)
  /\ astronaut_distances = Returned(<<>>)
  /\ health_evaluations = Returned(<<>>)
====
